---- MODULE Spec2Model ----
(***************************************************************************)
(* Reachy Mini companion: the lifecycle state machine (state_machine.py)   *)
(* and the Gemini Live session driver (conversation/gemini_session.py),    *)
(* with the parts of the orchestrator (main.py) and of the audio consumers *)
(* (robot/audio.py, web/audio_handler.py) that use them.                   *)
(*                                                                         *)
(* asyncio is cooperative: code between two awaits runs atomically, so an  *)
(* action is the code from one suspension point to the next.               *)
(***************************************************************************)
EXTENDS Integers, Sequences, FiniteSets, TLC

(* ------------------------------ bounds -------------------------------- *)
\* the monotonic clock of the state machine stops advancing here
MaxTime == 3
\* completed repetitions of the wake/sleep script are counted up to here
MaxCycles == 2

(* ----------------------- state_machine.py ----------------------------- *)
State == {"SETUP", "SLEEPING", "WAKING", "ACTIVE", "COOLDOWN"}

Event == {"SETUP_COMPLETE", "WAKE_WORD_DETECTED", "SESSION_READY",
          "SILENCE_TIMEOUT", "MAX_DURATION", "COOLDOWN_COMPLETE", "ERROR"}

\* the dict TRANSITIONS as a set of <<key, value>> pairs, key = <<state, event>>
TRANSITIONS ==
  { << <<"SETUP", "SETUP_COMPLETE">>, "SLEEPING" >>,
    << <<"SLEEPING", "WAKE_WORD_DETECTED">>, "WAKING" >>,
    << <<"WAKING", "SESSION_READY">>, "ACTIVE" >>,
    << <<"WAKING", "ERROR">>, "SLEEPING" >>,
    << <<"ACTIVE", "SILENCE_TIMEOUT">>, "COOLDOWN" >>,
    << <<"ACTIVE", "MAX_DURATION">>, "COOLDOWN" >>,
    << <<"ACTIVE", "ERROR">>, "COOLDOWN" >>,
    << <<"COOLDOWN", "COOLDOWN_COMPLETE">>, "SLEEPING" >>,
    << <<"COOLDOWN", "ERROR">>, "SLEEPING" >> }

\* key in TRANSITIONS
InTransitions(key) == \E t \in TRANSITIONS : t[1] = key

\* TRANSITIONS[key]
TransitionsGet(key) == (CHOOSE t \in TRANSITIONS : t[1] = key)[2]

VARIABLES
  sm_state,      \* StateMachine._state
  entered_at,    \* StateMachine._entered_at
  now,           \* time.monotonic()
  sm_result,     \* outcome of the last send_event: the state returned, "ValueError", or "none"
  sm_event,      \* the event of the last send_event call ("none" before the first)
  sm_calls,      \* parity of the number of send_event calls (tells two equal calls apart)
  cycle_pos,     \* place in the event script of test_multiple_cycles / test_full_state_flow
  cycles,        \* repetitions of the script completed, counted up to MaxCycles
  on_transition, \* a transition callback was given to StateMachine(...)
  cb_calls,      \* the observer invocations the last send_event call made, in order
  audio_handler, \* CompanionApp._audio_handler is not None (_init_dashboard succeeded)
  web_gemini,    \* WebAudioHandler._gemini is not None (a session is attached)
  web_last,      \* what the latest call of WebAudioHandler.receive or emit did
  dropped_full,  \* the session of an Active phase that ended held a token and queued items
  transcript,            \* DashboardState.transcript
  user_text_buffer,      \* DashboardState.user_text_buffer
  assistant_text_buffer  \* DashboardState.assistant_text_buffer

sm_vars == <<sm_state, entered_at, now, sm_result, sm_event, sm_calls, cycle_pos, cycles,
             on_transition, cb_calls>>

\* StateMachine.time_in_state
time_in_state == now - entered_at

\* StateMachine.__init__ with the default initial_state, as CompanionApp.setup builds it
SMInit ==
  /\ sm_state = "SETUP"
  /\ now = 0
  /\ entered_at = 0
  /\ sm_result = "none"
  /\ sm_event = "none"
  /\ sm_calls = 0
  /\ cycle_pos = 0
  /\ cycles = 0
  /\ on_transition = FALSE
  /\ cb_calls = <<>>

\* StateMachine.__init__: the transition callback is optional
SMInitAny ==
  /\ sm_state = "SETUP"
  /\ now = 0
  /\ entered_at = 0
  /\ sm_result = "none"
  /\ sm_event = "none"
  /\ sm_calls = 0
  /\ cycle_pos = 0
  /\ cycles = 0
  /\ on_transition \in BOOLEAN
  /\ cb_calls = <<>>

\* The script SetupComplete, then (WakeWordDetected, SessionReady,
\* SilenceTimeout | MaxDuration, CooldownComplete) repeated: the events allowed at
\* each place, and the place after one of them.  -1: the caller left the script.
ScriptEvents(p) ==
  CASE p = 0 -> {"SETUP_COMPLETE"}
    [] p = 1 -> {"WAKE_WORD_DETECTED"}
    [] p = 2 -> {"SESSION_READY"}
    [] p = 3 -> {"SILENCE_TIMEOUT", "MAX_DURATION"}
    [] p = 4 -> {"COOLDOWN_COMPLETE"}
    [] OTHER -> {}

ScriptNext(p, event) ==
  IF event \in ScriptEvents(p) THEN (IF p = 4 THEN 1 ELSE p + 1) ELSE -1

CyclesNext(p, event, n) ==
  IF p = 4 /\ event \in ScriptEvents(p) /\ n < MaxCycles THEN n + 1 ELSE n

\* one invocation of an observer of transitions: who is called, with what, and the
\* phase the machine is in when it is called
Invocation(observer, old_state, event, new_state, state) ==
  [observer |-> observer, args |-> <<old_state, event, new_state>>, state |-> state]

\* mutant of Callbacks: the dashboard's wrapper calls the callback it replaced first
Callbacks_original_first(old_state, event, new_state, state) ==
  (IF audio_handler /\ on_transition
     THEN <<Invocation("original", old_state, event, new_state, state)>> ELSE <<>>)
  \o (IF audio_handler
        THEN <<Invocation("dashboard", old_state, event, new_state, state)>> ELSE <<>>)
  \o (IF ~audio_handler /\ on_transition
        THEN <<Invocation("original", old_state, event, new_state, state)>> ELSE <<>>)

\* "if self._on_transition: self._on_transition(old_state, event, new_state)": the
\* invocations this makes.  _init_dashboard replaces the callback by a wrapper that
\* updates the dashboard and then calls the callback it replaced, if there was one.
Callbacks(old_state, event, new_state, state) ==
  (IF audio_handler
     THEN <<Invocation("dashboard", old_state, event, new_state, state)>> ELSE <<>>)
  \o (IF on_transition
        THEN <<Invocation("original", old_state, event, new_state, state)>> ELSE <<>>)

\* mutant of send_event: an invalid event is silently ignored or, for ERROR, forces SLEEPING
send_event_lenient(event) ==
  LET key == <<sm_state, event>> IN
  /\ sm_event' = event
  /\ sm_calls' = 1 - sm_calls
  /\ cycle_pos' = ScriptNext(cycle_pos, event)
  /\ cycles' = CyclesNext(cycle_pos, event, cycles)
  /\ IF InTransitions(key)
       THEN /\ sm_state' = TransitionsGet(key)
            /\ entered_at' = now
            /\ sm_result' = TransitionsGet(key)
            /\ cb_calls' = Callbacks(sm_state, event, TransitionsGet(key), sm_state')
       ELSE /\ sm_state' = IF event = "ERROR" THEN "SLEEPING" ELSE sm_state
            /\ entered_at' = entered_at
            /\ sm_result' = sm_state'
            /\ cb_calls' = <<>>
  /\ now' = now
  /\ on_transition' = on_transition

\* mutant of send_event: the entry timestamp is not refreshed on a transition
send_event_stale(event) ==
  LET key == <<sm_state, event>> IN
  /\ sm_event' = event
  /\ sm_calls' = 1 - sm_calls
  /\ cycle_pos' = ScriptNext(cycle_pos, event)
  /\ cycles' = CyclesNext(cycle_pos, event, cycles)
  /\ IF InTransitions(key)
       THEN /\ sm_state' = TransitionsGet(key)
            /\ entered_at' = entered_at
            /\ sm_result' = TransitionsGet(key)
            /\ cb_calls' = Callbacks(sm_state, event, TransitionsGet(key), sm_state')
       ELSE /\ UNCHANGED <<sm_state, entered_at>>
            /\ sm_result' = "ValueError"
            /\ cb_calls' = <<>>
  /\ now' = now
  /\ on_transition' = on_transition

\* StateMachine.send_event
send_event(event) ==
  LET key == <<sm_state, event>> IN
  /\ sm_event' = event
  /\ sm_calls' = 1 - sm_calls
  /\ cycle_pos' = ScriptNext(cycle_pos, event)
  /\ cycles' = CyclesNext(cycle_pos, event, cycles)
  /\ IF InTransitions(key)
       THEN /\ sm_state' = TransitionsGet(key)
            /\ entered_at' = now
            /\ sm_result' = TransitionsGet(key)
            /\ cb_calls' = Callbacks(sm_state, event, TransitionsGet(key), sm_state')
       ELSE /\ UNCHANGED <<sm_state, entered_at>>
            /\ sm_result' = "ValueError"
            /\ cb_calls' = <<>>
  /\ now' = now
  /\ on_transition' = on_transition




(* ------------------- conversation/gemini_session.py -------------------- *)
\* how many items send_audio / send_image enqueue in a run of the model
MaxEnq == 2
\* how many inbound audio chunks the transport produces in a run of the model
MaxChunks == 2

None == "None"

\* Python truthiness of an optional string: None and "" are falsy
Truthy(s) == s \notin {None, ""}

Min(a, b) == IF a < b THEN a ELSE b

\* run: max_backoff, max_retries
max_backoff == 30
max_retries == 10

\* --- exceptions: a type and a message, the message a sequence of words ---
\* str.lower() on the words that occur in the modelled messages
Lower(w) ==
  CASE w = "Invalid" -> "invalid"
    [] w = "API" -> "api"
    [] w = "UNAUTHENTICATED" -> "unauthenticated"
    [] w = "Forbidden" -> "forbidden"
    [] w = "Gemini" -> "gemini"
    [] OTHER -> w

LowerStr(msg) == [i \in 1..Len(msg) |-> Lower(msg[i])]

\* kw in error_str, for a keyword and a message given as word sequences
Contains(kw, msg) ==
  \E i \in 0..(Len(msg) - Len(kw)) :
    \A j \in 1..Len(kw) : msg[i + j] = kw[j]

\* the keyword list of _is_permanent_error
PermanentKeywords ==
  { <<"api", "key">>, <<"api_key">>, <<"unauthenticated">>,
    <<"permission", "denied">>, <<"not", "supported">>,
    <<"403">>, <<"401">>, <<"quota">> }

\* the exceptions the transport raises in the model (messages of test_permanent_error_detection)
Errors ==
  { [type |-> "Exception",  msg |-> <<"Invalid", "API", "key">>],
    [type |-> "Exception",  msg |-> <<"UNAUTHENTICATED">>],
    [type |-> "Exception",  msg |-> <<"403", "Forbidden">>],
    [type |-> "Exception",  msg |-> <<"quota", "exceeded">>],
    [type |-> "Exception",  msg |-> <<"permission", "denied">>],
    [type |-> "Exception",  msg |-> <<"not", "supported", "in", "Gemini", "API">>],
    [type |-> "ValueError", msg |-> <<"bad", "argument">>],
    [type |-> "TypeError",  msg |-> <<"invalid", "argument">>],
    [type |-> "Exception",  msg |-> <<"connection", "reset">>],
    [type |-> "Exception",  msg |-> <<"timeout">>],
    [type |-> "Exception",  msg |-> <<"server", "error">>] }

NoError == [type |-> None, msg |-> <<>>]

\* mutant of is_permanent_error: nothing is permanent, every error is retried
is_permanent_error_never(e) == FALSE

\* GeminiSession._is_permanent_error
is_permanent_error(e) ==
  \/ e.type \in {"ValueError", "TypeError"}
  \/ \E kw \in PermanentKeywords : Contains(kw, LowerStr(e.msg))

\* --- inbound messages of the transport ---
Handles == {"h1", "h2"}

NoUpdate == [new_handle |-> None, resumable |-> FALSE]

\* response.session_resumption_update: absent, or a handle (possibly empty) and a flag
Updates == {NoUpdate} \cup [new_handle : Handles \cup {""}, resumable : BOOLEAN]

\* sc.model_turn.parts: each part carries audio bytes ("data") or not ("text")
PartSeqs == {<<>>, <<"data">>, <<"text">>, <<"data", "data">>, <<"text", "data">>}

Responses == [parts : PartSeqs, go_away : BOOLEAN, update : Updates]

\* the messages without audio, and the messages without a resumption update
ControlResponses == {m \in Responses : m.parts = <<>>}
AudioResponses == {m \in Responses : m.update = NoUpdate}
PlainResponses == {m \in Responses : m.parts = <<>> /\ m.update = NoUpdate}

\* the number of audio-carrying parts among the first k parts
RECURSIVE DataParts(_, _)
DataParts(parts, k) ==
  IF k = 0 THEN 0
  ELSE DataParts(parts, k - 1) + (IF parts[k] = "data" THEN 1 ELSE 0)

VARIABLES
  pc,                 \* where run is: start, connecting, waiting, closing, sleeping, done, raised
  attempt,            \* iterations of "for attempt in range(max_retries)" begun
  backoff,            \* run: backoff
  stop_event,         \* the stop_event passed to run
  go_away_received,   \* GeminiSession._go_away_received
  reconnect_event,    \* GeminiSession._reconnect_event.is_set()
  resumption_handle,  \* GeminiSession._resumption_handle
  session,            \* GeminiSession._session is not None
  live_config,        \* the LiveConnectConfig of the latest connection attempt
  status,             \* the latest value given to on_status
  raised,             \* the exception run raised to its caller
  send_queue,         \* GeminiSession._send_queue
  playback_queue,     \* GeminiSession._playback_queue
  sender_pc,          \* _sender_loop task: none, top, getting, sending, ended
  sender_msg,         \* the item the sender dequeued and is sending
  receiver_pc,        \* _receiver_loop task: none, start, recv, ended
  wire,               \* what send_realtime_input was given, in order (and whether on a reconnection)
  enq_log,            \* the kinds of the items enqueued so far, in order
  n_prod,             \* audio chunks the transport has produced so far
  delivered,          \* <<reader, chunk>> for every chunk get_playback_audio returned
  slept_seq,          \* delays passed to asyncio.sleep since the last successful connection
  recv_handle,        \* the latest resumable handle a processed message carried
  conn_error,         \* the exception the latest connect raised, until the next iteration
  recv_error,         \* the exception the receiver loop caught, until the next iteration
  robot,              \* CompanionApp._robot is not None
  play_pc             \* RobotAudioBridge.playback_loop task: none, top, getting, ended

run_vars == <<pc, attempt, backoff, go_away_received, reconnect_event, resumption_handle,
              session, live_config, status, raised, slept_seq, recv_handle, conn_error,
              recv_error>>
io_vars == <<send_queue, playback_queue, sender_pc, sender_msg, receiver_pc, wire,
             enq_log, n_prod, delivered, play_pc>>
dash_vars == <<transcript, user_text_buffer, assistant_text_buffer>>
env_vars == <<stop_event, robot, audio_handler, web_gemini, web_last, dropped_full, dash_vars>>

NoMsg == <<None, 0>>

\* CompanionApp.setup: the robot handle is kept only outside simulate mode and when
\* the connection succeeded
SetupRobot(simulate, connect_ok) == (~simulate) /\ connect_ok

\* CompanionApp.setup / _init_dashboard: the web audio handler exists only in
\* simulate mode and when the dashboard imports succeeded
SetupDashboard(simulate, import_ok) == simulate /\ import_ok

\* GeminiSession.__init__, and the session's surroundings built by CompanionApp
SessionInit ==
  /\ pc = "start"
  /\ attempt = 0
  /\ backoff = 1
  /\ stop_event = FALSE
  /\ go_away_received = FALSE
  /\ reconnect_event = FALSE
  /\ resumption_handle = None
  /\ session = FALSE
  /\ live_config = [session_resumption_handle |-> None]
  /\ status = None
  /\ raised = NoError
  /\ send_queue = <<>>
  /\ playback_queue = <<>>
  /\ sender_pc = "none"
  /\ sender_msg = NoMsg
  /\ receiver_pc = "none"
  /\ wire = <<>>
  /\ enq_log = <<>>
  /\ n_prod = 0
  /\ delivered = <<>>
  /\ slept_seq = <<>>
  /\ recv_handle = None
  /\ conn_error = NoError
  /\ recv_error = NoError
  /\ \E simulate \in BOOLEAN, connect_ok \in BOOLEAN, import_ok \in BOOLEAN :
       /\ robot = SetupRobot(simulate, connect_ok)
       /\ audio_handler = SetupDashboard(simulate, import_ok)
  /\ web_gemini = audio_handler
  /\ web_last = "none"
  /\ dropped_full = FALSE
  /\ transcript = <<>>
  /\ user_text_buffer = <<>>
  /\ assistant_text_buffer = <<>>
  /\ play_pc = IF robot THEN "top" ELSE "none"

VARIABLES
  recv_msg,           \* _receiver_loop: the message whose tool calls are being handled
  tool_i,             \* _handle_tool_calls: index of the function call being awaited
  tool_results,       \* _handle_tool_calls: responses, one <<name, result>> per call so far
  tool_raised,        \* for each of them, whether the callback raised
  tool_sent,          \* the latest LiveClientToolResponse given to session.send
  n_tool,             \* messages with function calls received so far in the run
  n_tool_sent,        \* tool responses sent so far in the run
  err_at,             \* which of those messages was the first with a raising callback (0: none)
  on_tool_call        \* GeminiSession.on_tool_call is not None

tool_vars == <<recv_msg, tool_i, tool_results, tool_raised, tool_sent, n_tool, n_tool_sent, err_at,
               on_tool_call>>

VARIABLES
  last_speech_time,   \* SilenceDetector._last_speech_time
  vad_log,            \* the calls of process so far: <<current_time, loud, returned>>
  timed_out_before_reset  \* the last call before the latest reset returned true

vad_vars == <<last_speech_time, vad_log, timed_out_before_reset>>

VARIABLES
  main_pc,            \* where CompanionApp.run and the phase handler it awaits are
  shutdown_event,     \* CompanionApp.shutdown_event.is_set()
  session_start,      \* _handle_active: session_start
  mon_pc,             \* _session_monitor task: none, check, sleep, ended
  cap_pc,             \* RobotAudioBridge.capture_loop task: none, top, sample, ended
  group_aborting,     \* the TaskGroup has cancelled its tasks after one of them raised
  cost_session,       \* the cost tracker has a session started and not ended
  fx,                 \* the side effects of the phase handler in progress, in order
  reported,           \* the error _handle_active recorded, with the message it reported
  handler_exc         \* the exception that escaped the phase handler, while run handles it

app_vars == <<main_pc, shutdown_event, session_start, mon_pc, cap_pc, group_aborting,
              cost_session, fx, reported, handler_exc>>

ext_vars == <<tool_vars, vad_vars, app_vars>>

vars == <<sm_vars, run_vars, io_vars, env_vars, ext_vars>>



(* ------------------ send_audio / send_image / _sender_loop -------------- *)
\* an item of _send_queue: <<kind, data>>; the data of the n-th item enqueued is n
Item(kind, data) == <<kind, data>>

\* what _sender_loop hands to send_realtime_input for a dequeued item
Blob(msg) ==
  IF msg[1] = "audio"
    THEN [field |-> "audio", mime_type |-> "audio/pcm", data |-> msg[2]]
    ELSE [field |-> "media", mime_type |-> "image/jpeg", data |-> msg[2]]

\* GeminiSession.send_audio
SendAudio ==
  /\ Len(enq_log) < MaxEnq
  /\ send_queue' = Append(send_queue, Item("audio", Len(enq_log) + 1))
  /\ enq_log' = Append(enq_log, "audio")
  /\ UNCHANGED <<playback_queue, sender_pc, sender_msg, receiver_pc, wire, n_prod,
                 delivered, play_pc>>
  /\ UNCHANGED <<sm_vars, ext_vars, run_vars, env_vars>>

\* GeminiSession.send_image
SendImage ==
  /\ Len(enq_log) < MaxEnq
  /\ send_queue' = Append(send_queue, Item("image", Len(enq_log) + 1))
  /\ enq_log' = Append(enq_log, "image")
  /\ UNCHANGED <<playback_queue, sender_pc, sender_msg, receiver_pc, wire, n_prod,
                 delivered, play_pc>>
  /\ UNCHANGED <<sm_vars, ext_vars, run_vars, env_vars>>

\* _sender_loop: the while condition
SenderCheck ==
  /\ sender_pc = "top"
  /\ sender_pc' = IF ~stop_event /\ ~reconnect_event THEN "getting" ELSE "ended"
  /\ UNCHANGED <<send_queue, playback_queue, sender_msg, receiver_pc, wire, enq_log,
                 n_prod, delivered, play_pc>>
  /\ UNCHANGED <<sm_vars, ext_vars, run_vars, env_vars>>

\* mutant of queue_get: the newest item is taken first
queue_get_lifo(q) == <<q[Len(q)], SubSeq(q, 1, Len(q) - 1)>>

\* asyncio.Queue.get on a non-empty queue: <<the item, the rest of the queue>>
queue_get(q) == <<Head(q), Tail(q)>>

\* _sender_loop: wait_for(get) returned an item; it is sent if a session is set
SenderGet ==
  /\ sender_pc = "getting"
  /\ send_queue # <<>>
  /\ send_queue' = queue_get(send_queue)[2]
  /\ IF session
       THEN /\ sender_pc' = "sending"
            /\ sender_msg' = queue_get(send_queue)[1]
       ELSE /\ sender_pc' = "top"
            /\ sender_msg' = NoMsg
  /\ UNCHANGED <<playback_queue, receiver_pc, wire, enq_log, n_prod, delivered, play_pc>>
  /\ UNCHANGED <<sm_vars, ext_vars, run_vars, env_vars>>

\* _sender_loop: wait_for(get) timed out on an empty queue
SenderTimeout ==
  /\ sender_pc = "getting"
  /\ send_queue = <<>>
  /\ sender_pc' = "top"
  /\ UNCHANGED <<send_queue, playback_queue, sender_msg, receiver_pc, wire, enq_log,
                 n_prod, delivered, play_pc>>
  /\ UNCHANGED <<sm_vars, ext_vars, run_vars, env_vars>>

\* _sender_loop: send_realtime_input returned
SenderSent ==
  /\ sender_pc = "sending"
  /\ wire' = Append(wire, [blob |-> Blob(sender_msg), reconnected |-> attempt > 1])
  /\ sender_pc' = "top"
  /\ sender_msg' = NoMsg
  /\ UNCHANGED <<send_queue, playback_queue, receiver_pc, enq_log, n_prod, delivered,
                 play_pc>>
  /\ UNCHANGED <<sm_vars, ext_vars, run_vars, env_vars>>

\* _sender_loop: send_realtime_input raised; the loop logs and breaks
SenderError ==
  /\ sender_pc = "sending"
  /\ sender_pc' = "ended"
  /\ sender_msg' = NoMsg
  /\ UNCHANGED <<send_queue, playback_queue, receiver_pc, wire, enq_log, n_prod,
                 delivered, play_pc>>
  /\ UNCHANGED <<sm_vars, ext_vars, run_vars, env_vars>>

(* ----------------------- function calls of a message -------------------- *)
\* how many messages with function calls the transport sends in a run of the model
MaxToolMsgs == 2

ToolNames == {"robot_expression", "robot_look_at"}

\* response.tool_call.function_calls of the modelled messages
CallSeqs == {<<"robot_expression">>, <<"robot_expression", "robot_look_at">>}

\* a message with function calls, and whether it also carries a go-away
ToolMessages == [calls : CallSeqs, go_away : BOOLEAN]

NoToolMsg == [calls |-> <<>>, go_away |-> FALSE]

\* what the tool-call callback raises in the model: float() of a bad intensity, and a
\* failure of the robot
ToolErrors ==
  { [type |-> "ValueError", msg |-> <<"bad", "argument">>],
    [type |-> "Exception",  msg |-> <<"timeout">>] }

\* result = "" of a call when no callback is registered
EmptyString == <<>>

\* str(result) of a callback that returned, for the call's name
ToolOk(name) == <<"done", name>>

\* f"Error: {e}"
ErrorString(e) == <<"Error:">> \o e.msg

\* the locals of the receiver's tool handling when it is not handling a message
tool_locals_cleared ==
  /\ recv_msg' = NoToolMsg
  /\ tool_i' = 0
  /\ tool_results' = <<>>
  /\ tool_raised' = <<>>

\* no message with function calls has been received yet
ToolLocalsInit ==
  /\ recv_msg = NoToolMsg
  /\ tool_i = 0
  /\ tool_results = <<>>
  /\ tool_raised = <<>>
  /\ tool_sent = <<>>
  /\ n_tool = 0
  /\ n_tool_sent = 0
  /\ err_at = 0

\* the session _handle_active builds: the dispatcher is its tool-call callback
ToolInit ==
  /\ ToolLocalsInit
  /\ on_tool_call = TRUE

\* GeminiSession.__init__: the tool-call callback is optional
ToolInitAny ==
  /\ ToolLocalsInit
  /\ on_tool_call \in BOOLEAN

(* --------------------------- GeminiSession.run ------------------------- *)
\* GeminiSession._build_config: the resumption part of the configuration
build_config ==
  [session_resumption_handle |->
     IF Truthy(resumption_handle) THEN resumption_handle ELSE None]

\* mutant of run_iterate: the stop signal is not checked at the head of the loop
run_iterate_nostop ==
  IF attempt = max_retries
    THEN /\ pc' = "done"
         /\ UNCHANGED <<attempt, go_away_received, reconnect_event, live_config, status>>
    ELSE /\ attempt' = attempt + 1
         /\ go_away_received' = FALSE
         /\ reconnect_event' = FALSE
         /\ live_config' = build_config
         /\ status' = IF Truthy(resumption_handle) THEN "reconnecting" ELSE "connecting"
         /\ pc' = "connecting"

\* mutant of run_iterate: the go-away flag is not cleared
run_iterate_keepflag ==
  IF attempt = max_retries \/ stop_event
    THEN /\ pc' = "done"
         /\ UNCHANGED <<attempt, go_away_received, reconnect_event, live_config, status>>
    ELSE /\ attempt' = attempt + 1
         /\ go_away_received' = go_away_received
         /\ reconnect_event' = FALSE
         /\ live_config' = build_config
         /\ status' = IF Truthy(resumption_handle) THEN "reconnecting" ELSE "connecting"
         /\ pc' = "connecting"

\* mutant of run_iterate: every attempt is announced as "connecting"
run_iterate_connecting ==
  IF attempt = max_retries \/ stop_event
    THEN /\ pc' = "done"
         /\ UNCHANGED <<attempt, go_away_received, reconnect_event, live_config, status>>
    ELSE /\ attempt' = attempt + 1
         /\ go_away_received' = FALSE
         /\ reconnect_event' = FALSE
         /\ live_config' = build_config
         /\ status' = "connecting"
         /\ pc' = "connecting"

\* mutant of run_iterate: one attempt too many (range(max_retries + 1))
run_iterate_extra ==
  IF attempt = max_retries + 1 \/ stop_event
    THEN /\ pc' = "done"
         /\ UNCHANGED <<attempt, go_away_received, reconnect_event, live_config, status>>
    ELSE /\ attempt' = attempt + 1
         /\ go_away_received' = FALSE
         /\ reconnect_event' = FALSE
         /\ live_config' = build_config
         /\ status' = IF Truthy(resumption_handle) THEN "reconnecting" ELSE "connecting"
         /\ pc' = "connecting"

\* The head of "for attempt in range(max_retries)" up to the call of connect: no await
\* lies between the end of one iteration and this point, so it runs in the same step.
run_iterate ==
  IF attempt = max_retries \/ stop_event
    THEN /\ pc' = "done"
         /\ UNCHANGED <<attempt, go_away_received, reconnect_event, live_config, status>>
    ELSE /\ attempt' = attempt + 1
         /\ go_away_received' = FALSE
         /\ reconnect_event' = FALSE
         /\ live_config' = build_config
         /\ status' = IF Truthy(resumption_handle) THEN "reconnecting" ELSE "connecting"
         /\ pc' = "connecting"

\* run is called: the client is created and the loop is entered
RunStart ==
  /\ pc = "start"
  /\ run_iterate
  /\ UNCHANGED <<backoff, resumption_handle, session, raised, slept_seq, recv_handle,
                 conn_error, recv_error>>
  /\ UNCHANGED <<sm_vars, ext_vars, io_vars, env_vars>>

\* mutant of ConnectOk: a successful connection starts the count of attempts afresh
ConnectOk_resets ==
  /\ pc = "connecting"
  /\ session' = TRUE
  /\ status' = "connected"
  /\ backoff' = 1
  /\ attempt' = 0
  /\ sender_pc' = "top"
  /\ receiver_pc' = "start"
  /\ pc' = "waiting"
  /\ slept_seq' = <<>>
  /\ UNCHANGED <<go_away_received, reconnect_event, resumption_handle,
                 live_config, raised, recv_handle, conn_error, recv_error>>
  /\ UNCHANGED <<send_queue, playback_queue, sender_msg, wire, enq_log, n_prod,
                 delivered, play_pc>>
  /\ UNCHANGED <<sm_vars, ext_vars, env_vars>>

\* connect succeeded: the body of "async with" up to "await asyncio.wait"
ConnectOk ==
  /\ pc = "connecting"
  /\ session' = TRUE
  /\ status' = "connected"
  /\ backoff' = 1
  /\ sender_pc' = "top"
  /\ receiver_pc' = "start"
  /\ pc' = "waiting"
  /\ slept_seq' = <<>>
  /\ UNCHANGED <<attempt, go_away_received, reconnect_event, resumption_handle,
                 live_config, raised, recv_handle, conn_error, recv_error>>
  /\ UNCHANGED <<send_queue, playback_queue, sender_msg, wire, enq_log, n_prod,
                 delivered, play_pc>>
  /\ UNCHANGED <<sm_vars, ext_vars, env_vars>>

\* the "except Exception" branch of run: re-raise a permanent error, else sleep backoff
run_except(e) ==
  /\ session' = FALSE
  /\ IF is_permanent_error(e)
       THEN /\ pc' = "raised"
            /\ raised' = e
            /\ slept_seq' = slept_seq
       ELSE /\ pc' = "sleeping"
            /\ raised' = raised
            /\ slept_seq' = Append(slept_seq, backoff)

\* connect raised one of the exceptions E
ConnectErrorFrom(E) ==
  /\ pc = "connecting"
  /\ \E e \in E : run_except(e) /\ conn_error' = e
  /\ UNCHANGED <<attempt, backoff, go_away_received, reconnect_event, resumption_handle,
                 live_config, status, recv_handle, recv_error>>
  /\ UNCHANGED <<sm_vars, ext_vars, io_vars, env_vars>>

\* connect raised
ConnectError == ConnectErrorFrom(Errors)

\* mutant of RunWake: the sender task is neither cancelled nor awaited
RunWake_nocancel ==
  /\ pc = "waiting"
  /\ stop_event \/ reconnect_event
  /\ receiver_pc' = "ended"
  /\ reconnect_event' = IF receiver_pc \in {"recv", "tool", "toolsend"} /\ ~stop_event
                          THEN TRUE ELSE reconnect_event
  /\ tool_locals_cleared
  /\ session' = FALSE
  /\ pc' = "closing"
  /\ UNCHANGED <<attempt, backoff, go_away_received, resumption_handle, live_config,
                 status, raised, slept_seq, recv_handle, conn_error, recv_error>>
  /\ UNCHANGED <<send_queue, playback_queue, enq_log, n_prod, delivered, play_pc,
                 sender_pc, sender_msg, wire>>
  /\ UNCHANGED <<tool_sent, n_tool, n_tool_sent, err_at, on_tool_call>>
  /\ UNCHANGED <<sm_vars, vad_vars, app_vars, env_vars>>

\* asyncio.wait returned: both loops are cancelled and gathered, _session is cleared.
\* A send in flight when the sender is cancelled may or may not have reached the wire;
\* the receiver's finally block runs on cancellation too.
RunWake ==
  /\ pc = "waiting"
  /\ stop_event \/ reconnect_event
  /\ sender_pc' = "ended"
  /\ sender_msg' = NoMsg
  /\ IF sender_pc = "sending"
       THEN wire' \in {wire, Append(wire, [blob |-> Blob(sender_msg), reconnected |-> attempt > 1])}
       ELSE wire' = wire
  /\ receiver_pc' = "ended"
  /\ reconnect_event' = IF receiver_pc \in {"recv", "tool", "toolsend"} /\ ~stop_event
                          THEN TRUE ELSE reconnect_event
  /\ tool_locals_cleared
  /\ session' = FALSE
  /\ pc' = "closing"
  /\ UNCHANGED <<attempt, backoff, go_away_received, resumption_handle, live_config,
                 status, raised, slept_seq, recv_handle, conn_error, recv_error>>
  /\ UNCHANGED <<send_queue, playback_queue, enq_log, n_prod, delivered, play_pc>>
  /\ UNCHANGED <<tool_sent, n_tool, n_tool_sent, err_at, on_tool_call>>
  /\ UNCHANGED <<sm_vars, vad_vars, app_vars, env_vars>>

\* after the context manager exited: stop -> break; go-away -> continue; else sleep
run_after_close ==
  IF stop_event
    THEN /\ pc' = "done"
         /\ UNCHANGED <<attempt, go_away_received, reconnect_event, live_config, status,
                        slept_seq>>
    ELSE IF go_away_received
      THEN /\ run_iterate
           /\ slept_seq' = slept_seq
      ELSE /\ pc' = "sleeping"
           /\ slept_seq' = Append(slept_seq, backoff)
           /\ UNCHANGED <<attempt, go_away_received, reconnect_event, live_config, status>>

\* the transport is closed
RunClosed ==
  /\ pc = "closing"
  /\ run_after_close
  /\ recv_error' = IF pc' = "connecting" THEN NoError ELSE recv_error
  /\ UNCHANGED <<backoff, resumption_handle, session, raised, recv_handle, conn_error>>
  /\ UNCHANGED <<sm_vars, ext_vars, io_vars, env_vars>>

\* mutant of next_backoff: doubling without the cap
next_backoff_uncapped(b) == b * 2

\* backoff = min(backoff * 2, max_backoff)
next_backoff(b) == Min(b * 2, max_backoff)

\* asyncio.sleep(backoff) returned: the backoff doubles and the next iteration begins
SleepDone ==
  /\ pc = "sleeping"
  /\ backoff' = next_backoff(backoff)
  /\ run_iterate
  /\ conn_error' = NoError
  /\ recv_error' = NoError
  /\ UNCHANGED <<resumption_handle, session, raised, slept_seq, recv_handle>>
  /\ UNCHANGED <<sm_vars, ext_vars, io_vars, env_vars>>

(* ---------------------- GeminiSession._receiver_loop -------------------- *)
\* _receiver_loop begins: it returns at once without a session
ReceiverStart ==
  /\ receiver_pc = "start"
  /\ receiver_pc' = IF session THEN "recv" ELSE "ended"
  /\ UNCHANGED <<send_queue, playback_queue, sender_pc, sender_msg, wire, enq_log,
                 n_prod, delivered, play_pc>>
  /\ UNCHANGED <<sm_vars, ext_vars, run_vars, env_vars>>

\* the chunks of a message's audio parts, numbered in the order the transport made
\* them and tagged with whether they came on a reconnection
Chunks(parts) ==
  [i \in 1..DataParts(parts, Len(parts)) |-> [id |-> n_prod + i, reconnected |-> attempt > 1]]

\* mutant of handle_update: an update that is not resumable clears the handle
handle_update_clear(update) ==
  IF update # NoUpdate /\ Truthy(update.new_handle)
    THEN (IF update.resumable THEN update.new_handle ELSE None)
    ELSE resumption_handle

\* mutant of handle_update: the resumable flag is ignored
handle_update_any(update) ==
  IF update # NoUpdate /\ Truthy(update.new_handle)
    THEN update.new_handle ELSE resumption_handle

\* "Track session resumption handles": the value of _resumption_handle after a message
handle_update(update) ==
  IF update # NoUpdate /\ Truthy(update.new_handle) /\ update.resumable
    THEN update.new_handle ELSE resumption_handle

\* mutant of playback_put: the chunks of a message are queued ahead of the waiting ones
playback_put_front(q, chunks) == chunks \o q

\* the audio parts of a message appended to _playback_queue
playback_put(q, chunks) == q \o chunks

\* the transport yields a message, one of the set M: dropped on stop (break, then
\* finally), else handled
ReceiverMessage(M) ==
  /\ receiver_pc = "recv"
  /\ \E m \in M :
       /\ n_prod + DataParts(m.parts, Len(m.parts)) <= MaxChunks
       /\ n_prod' = n_prod + DataParts(m.parts, Len(m.parts))
       /\ IF stop_event
            THEN /\ receiver_pc' = "ended"
                 /\ UNCHANGED <<playback_queue, go_away_received, resumption_handle,
                                recv_handle>>
            ELSE /\ receiver_pc' = "recv"
                 /\ playback_queue' = playback_put(playback_queue, Chunks(m.parts))
                 /\ go_away_received' = (go_away_received \/ m.go_away)
                 /\ resumption_handle' = handle_update(m.update)
                 /\ recv_handle' = IF m.update.resumable /\ m.update.new_handle \in Handles
                                     THEN m.update.new_handle ELSE recv_handle
  /\ UNCHANGED <<pc, attempt, backoff, reconnect_event, session, live_config, status,
                 raised, slept_seq, conn_error, recv_error>>
  /\ UNCHANGED <<send_queue, sender_pc, sender_msg, wire, enq_log, delivered, play_pc>>
  /\ UNCHANGED <<sm_vars, ext_vars, env_vars>>

\* the finally block of _receiver_loop
receiver_finally ==
  reconnect_event' = IF ~stop_event THEN TRUE ELSE reconnect_event

\* the inbound stream ends
ReceiverEnd ==
  /\ receiver_pc = "recv"
  /\ receiver_pc' = "ended"
  /\ receiver_finally
  /\ UNCHANGED <<pc, attempt, backoff, go_away_received, resumption_handle, session,
                 live_config, status, raised, slept_seq, recv_handle, conn_error, recv_error>>
  /\ UNCHANGED <<send_queue, playback_queue, sender_pc, sender_msg, wire, enq_log,
                 n_prod, delivered, play_pc>>
  /\ UNCHANGED <<sm_vars, ext_vars, env_vars>>

\* receive raises one of the exceptions E: it is caught and logged (unless stopping),
\* whatever its kind, and the loop ends through its finally block
ReceiverErrorFrom(E) ==
  /\ receiver_pc = "recv"
  /\ \E e \in E :
       /\ recv_error' = e
       /\ receiver_pc' = "ended"
       /\ receiver_finally
  /\ UNCHANGED <<pc, attempt, backoff, go_away_received, resumption_handle, session,
                 live_config, status, raised, slept_seq, recv_handle, conn_error>>
  /\ UNCHANGED <<send_queue, playback_queue, sender_pc, sender_msg, wire, enq_log,
                 n_prod, delivered, play_pc>>
  /\ UNCHANGED <<sm_vars, ext_vars, env_vars>>

\* receive raises
ReceiverError == ReceiverErrorFrom(Errors)

\* the exception of receive where only the end of the loop matters
StreamErrors ==
  { [type |-> "Exception", msg |-> <<"connection", "reset">>] }

(* -------------------- GeminiSession._handle_tool_calls ------------------ *)
\* mutant of no_callback_results: only the first call gets a response
no_callback_results_first(calls) == << <<calls[1], EmptyString>> >>

\* the responses of _handle_tool_calls when no callback is registered: nothing is
\* awaited, every call gets the result ""
no_callback_results(calls) == [i \in 1..Len(calls) |-> <<calls[i], EmptyString>>]

\* mutant of ReceiverToolMessage: the next message is taken up while a callback of
\* the current one is still awaited
ReceiverToolMessage_concurrent ==
  /\ receiver_pc \in {"recv", "tool"}
  /\ n_tool < MaxToolMsgs
  /\ n_tool' = n_tool + 1
  /\ \E m \in ToolMessages :
       IF stop_event
         THEN /\ receiver_pc' = "ended"
              /\ UNCHANGED <<recv_msg, tool_i, tool_results, tool_raised>>
         ELSE IF on_tool_call
           THEN /\ receiver_pc' = "tool"
                /\ recv_msg' = m
                /\ tool_i' = 1
                /\ tool_results' = <<>>
                /\ tool_raised' = <<>>
           ELSE /\ receiver_pc' = "toolsend"
                /\ recv_msg' = m
                /\ tool_i' = Len(m.calls)
                /\ tool_results' = no_callback_results(m.calls)
                /\ tool_raised' = [i \in 1..Len(m.calls) |-> FALSE]
  /\ UNCHANGED <<tool_sent, n_tool_sent, err_at, on_tool_call>>
  /\ UNCHANGED <<sm_vars, run_vars, env_vars, vad_vars, app_vars>>
  /\ UNCHANGED <<send_queue, playback_queue, sender_pc, sender_msg, wire, enq_log,
                 n_prod, delivered, play_pc>>

\* the transport yields a message with function calls: dropped on stop, else
\* _handle_tool_calls begins and awaits the callback for the first call (without a
\* callback it runs through to the send)
ReceiverToolMessage ==
  /\ receiver_pc = "recv"
  /\ n_tool < MaxToolMsgs
  /\ n_tool' = n_tool + 1
  /\ \E m \in ToolMessages :
       IF stop_event
         THEN /\ receiver_pc' = "ended"
              /\ UNCHANGED <<recv_msg, tool_i, tool_results, tool_raised>>
         ELSE IF on_tool_call
           THEN /\ receiver_pc' = "tool"
                /\ recv_msg' = m
                /\ tool_i' = 1
                /\ tool_results' = <<>>
                /\ tool_raised' = <<>>
           ELSE /\ receiver_pc' = "toolsend"
                /\ recv_msg' = m
                /\ tool_i' = Len(m.calls)
                /\ tool_results' = no_callback_results(m.calls)
                /\ tool_raised' = [i \in 1..Len(m.calls) |-> FALSE]
  /\ UNCHANGED <<tool_sent, n_tool_sent, err_at, on_tool_call>>
  /\ UNCHANGED <<sm_vars, run_vars, env_vars, vad_vars, app_vars>>
  /\ UNCHANGED <<send_queue, playback_queue, sender_pc, sender_msg, wire, enq_log,
                 n_prod, delivered, play_pc>>

\* mutant of tool_call: an exception of the callback is not caught in
\* _handle_tool_calls and ends the receiver loop
tool_call_uncaught(outcome) ==
  LET name == recv_msg.calls[tool_i] IN
  IF outcome = NoError
    THEN /\ tool_results' = Append(tool_results, <<name, ToolOk(name)>>)
         /\ tool_raised' = Append(tool_raised, FALSE)
         /\ tool_i' = IF tool_i < Len(recv_msg.calls) THEN tool_i + 1 ELSE tool_i
         /\ receiver_pc' = IF tool_i < Len(recv_msg.calls) THEN "tool" ELSE "toolsend"
         /\ UNCHANGED <<recv_msg, err_at, reconnect_event>>
    ELSE /\ tool_locals_cleared
         /\ receiver_pc' = "ended"
         /\ err_at' = IF err_at = 0 THEN n_tool ELSE err_at
         /\ reconnect_event' = IF ~stop_event THEN TRUE ELSE reconnect_event

\* one iteration of "for fc in function_calls": the callback returned (outcome is
\* NoError) or raised; either way a response for the call is appended
tool_call(outcome) ==
  LET name == recv_msg.calls[tool_i]
      result == IF outcome = NoError THEN ToolOk(name) ELSE ErrorString(outcome)
  IN /\ tool_results' = Append(tool_results, <<name, result>>)
     /\ tool_raised' = Append(tool_raised, outcome # NoError)
     /\ tool_i' = IF tool_i < Len(recv_msg.calls) THEN tool_i + 1 ELSE tool_i
     /\ receiver_pc' = IF tool_i < Len(recv_msg.calls) THEN "tool" ELSE "toolsend"
     /\ err_at' = IF outcome # NoError /\ err_at = 0 THEN n_tool ELSE err_at
     /\ UNCHANGED <<recv_msg, reconnect_event>>

\* the awaited callback of the current function call completes
ToolCall ==
  /\ receiver_pc = "tool"
  /\ \E outcome \in {NoError} \cup ToolErrors : tool_call(outcome)
  /\ UNCHANGED <<tool_sent, n_tool, n_tool_sent, on_tool_call>>
  /\ UNCHANGED <<pc, attempt, backoff, go_away_received, resumption_handle, session,
                 live_config, status, raised, slept_seq, recv_handle, conn_error, recv_error>>
  /\ UNCHANGED <<send_queue, playback_queue, sender_pc, sender_msg, wire, enq_log,
                 n_prod, delivered, play_pc>>
  /\ UNCHANGED <<sm_vars, env_vars, vad_vars, app_vars>>

\* session.send of the tool response returned: the rest of the message is handled
\* (its go-away) and the loop waits for the next message
ToolSend ==
  /\ receiver_pc = "toolsend"
  /\ tool_sent' = tool_results
  /\ n_tool_sent' = n_tool_sent + 1
  /\ go_away_received' = (go_away_received \/ recv_msg.go_away)
  /\ tool_locals_cleared
  /\ receiver_pc' = "recv"
  /\ UNCHANGED <<n_tool, err_at, on_tool_call>>
  /\ UNCHANGED <<pc, attempt, backoff, reconnect_event, resumption_handle, session,
                 live_config, status, raised, slept_seq, recv_handle, conn_error, recv_error>>
  /\ UNCHANGED <<send_queue, playback_queue, sender_pc, sender_msg, wire, enq_log,
                 n_prod, delivered, play_pc>>
  /\ UNCHANGED <<sm_vars, env_vars, vad_vars, app_vars>>

\* session.send of the tool response raised: the receiver loop's except and finally
ToolSendError ==
  /\ receiver_pc = "toolsend"
  /\ receiver_pc' = "ended"
  /\ receiver_finally
  /\ tool_locals_cleared
  /\ UNCHANGED <<tool_sent, n_tool, n_tool_sent, err_at, on_tool_call>>
  /\ UNCHANGED <<pc, attempt, backoff, go_away_received, resumption_handle, session,
                 live_config, status, raised, slept_seq, recv_handle, conn_error, recv_error>>
  /\ UNCHANGED <<send_queue, playback_queue, sender_pc, sender_msg, wire, enq_log,
                 n_prod, delivered, play_pc>>
  /\ UNCHANGED <<sm_vars, env_vars, vad_vars, app_vars>>

(* ------------------ the readers of get_playback_audio ------------------ *)
\* RobotAudioBridge.playback_loop: the while condition
PlaybackCheck ==
  /\ play_pc = "top"
  /\ play_pc' = IF stop_event THEN "ended" ELSE "getting"
  /\ UNCHANGED <<send_queue, playback_queue, sender_pc, sender_msg, receiver_pc, wire,
                 enq_log, n_prod, delivered>>
  /\ UNCHANGED <<sm_vars, ext_vars, run_vars, env_vars>>

\* RobotAudioBridge.playback_loop: get_playback_audio returned a chunk, which is played
PlaybackGet ==
  /\ play_pc = "getting"
  /\ playback_queue # <<>>
  /\ delivered' = Append(delivered, <<"robot", queue_get(playback_queue)[1]>>)
  /\ playback_queue' = queue_get(playback_queue)[2]
  /\ play_pc' = "top"
  /\ UNCHANGED <<send_queue, sender_pc, sender_msg, receiver_pc, wire, enq_log, n_prod>>
  /\ UNCHANGED <<sm_vars, ext_vars, run_vars, env_vars>>

\* WebAudioHandler.emit with a session attached: a chunk within the 0.04 s wait
WebEmit ==
  /\ audio_handler
  /\ web_gemini
  /\ playback_queue # <<>>
  /\ delivered' = Append(delivered, <<"web", queue_get(playback_queue)[1]>>)
  /\ playback_queue' = queue_get(playback_queue)[2]
  /\ web_last' = "audio"
  /\ UNCHANGED <<send_queue, sender_pc, sender_msg, receiver_pc, wire, enq_log, n_prod,
                 play_pc>>
  /\ UNCHANGED <<stop_event, robot, audio_handler, web_gemini, dropped_full, dash_vars>>
  /\ UNCHANGED <<sm_vars, ext_vars, run_vars>>

\* WebAudioHandler.emit returns None: no session is attached (after a 0.04 s sleep),
\* or the 0.04 s wait for a chunk of the attached session timed out
WebEmitNone ==
  /\ audio_handler
  /\ (~web_gemini) \/ playback_queue = <<>>
  /\ web_last' = "no_audio"
  /\ UNCHANGED <<stop_event, robot, audio_handler, web_gemini, dropped_full, dash_vars>>
  /\ UNCHANGED <<sm_vars, ext_vars, run_vars, io_vars>>

\* mutant of receive_queues: a frame is forwarded whether a session is attached or not
receive_queues_always(frame_empty) == ~frame_empty

\* WebAudioHandler.receive: the frame reaches send_audio when a session is attached
\* and the frame has samples
receive_queues(frame_empty) == web_gemini /\ ~frame_empty

\* WebAudioHandler.receive: a frame of the browser, empty or not as F allows, is
\* forwarded to send_audio of the attached session, or dropped
WebReceiveFrom(F) ==
  /\ audio_handler
  /\ \E frame_empty \in F :
       IF receive_queues(frame_empty)
         THEN /\ Len(enq_log) < MaxEnq
              /\ send_queue' = Append(send_queue, Item("audio", Len(enq_log) + 1))
              /\ enq_log' = Append(enq_log, "audio")
              /\ web_last' = "queued"
         ELSE /\ UNCHANGED <<send_queue, enq_log>>
              /\ web_last' = "dropped"
  /\ UNCHANGED <<playback_queue, sender_pc, sender_msg, receiver_pc, wire, n_prod,
                 delivered, play_pc>>
  /\ UNCHANGED <<stop_event, robot, audio_handler, web_gemini, dropped_full, dash_vars>>
  /\ UNCHANGED <<sm_vars, ext_vars, run_vars>>

\* a frame of the browser, with samples or without
WebReceive == WebReceiveFrom(BOOLEAN)

\* a frame of the browser that has samples
WebReceiveAudio == WebReceiveFrom({FALSE})

(* ------------------------------ wake/vad.py ---------------------------- *)
\* how many calls of process a run of the model makes between two resets
MaxVadCalls == 4

\* SilenceDetector(timeout_sec=2.0, rms_threshold=200), as the tests build it
timeout_sec == 2
rms_threshold == 200

\* current_time in half seconds: 0.0, 1.0, 1.5, 2.0, 2.5 and 4.0 s
VadTimes == {0, 2, 3, 4, 5, 8}

\* the timeout in the unit of VadTimes
timeout_halfsec == 2 * timeout_sec

\* audio blocks (int16 mono), as sequences of samples
VadBlocks == {<<0, 0>>, <<5000, 5000>>, <<200, 200>>, <<199, 200>>, <<100, -300>>}

RECURSIVE SumSq(_, _)
SumSq(audio, k) ==
  IF k = 0 THEN 0 ELSE SumSq(audio, k - 1) + audio[k] * audio[k]

\* rms >= self.rms_threshold, with rms = sqrt(mean(audio ** 2)): both sides are
\* non-negative, so the comparison is the one of their squares
RmsAtLeast(audio, threshold) ==
  SumSq(audio, Len(audio)) >= threshold * threshold * Len(audio)

\* _last_speech_time: None, or a time (held in a one-element sequence)
NoTime == <<>>

VadInit ==
  /\ last_speech_time = NoTime
  /\ vad_log = <<>>
  /\ timed_out_before_reset = FALSE

\* mutant of process: a loud block does not restart the silence timer
process_noreset(audio, current_time) ==
  LET last == IF last_speech_time = NoTime THEN current_time ELSE last_speech_time[1]
      loud == RmsAtLeast(audio, rms_threshold)
      ret  == IF loud THEN FALSE ELSE current_time - last >= timeout_halfsec
  IN /\ last_speech_time' = <<last>>
     /\ vad_log' = Append(vad_log, <<current_time, loud, ret>>)

\* mutant of process: the silence of the first call is measured from the epoch
process_epoch(audio, current_time) ==
  LET last == IF last_speech_time = NoTime THEN 0 ELSE last_speech_time[1]
      loud == RmsAtLeast(audio, rms_threshold)
      ret  == IF loud THEN FALSE ELSE current_time - last >= timeout_halfsec
  IN /\ last_speech_time' = IF loud THEN <<current_time>> ELSE <<last>>
     /\ vad_log' = Append(vad_log, <<current_time, loud, ret>>)

\* SilenceDetector.process(audio, current_time)
process(audio, current_time) ==
  LET last == IF last_speech_time = NoTime THEN current_time ELSE last_speech_time[1]
      loud == RmsAtLeast(audio, rms_threshold)
      ret  == IF loud THEN FALSE ELSE current_time - last >= timeout_halfsec
  IN /\ last_speech_time' = IF loud THEN <<current_time>> ELSE <<last>>
     /\ vad_log' = Append(vad_log, <<current_time, loud, ret>>)

\* a caller passes a block and a time to process
VadProcess ==
  /\ Len(vad_log) < MaxVadCalls
  /\ \E audio \in VadBlocks, current_time \in VadTimes : process(audio, current_time)
  /\ UNCHANGED timed_out_before_reset
  /\ UNCHANGED <<sm_vars, run_vars, io_vars, env_vars, tool_vars, app_vars>>

\* SilenceDetector.reset; the log of calls starts anew
VadReset ==
  /\ vad_log # <<>>
  /\ last_speech_time' = NoTime
  /\ vad_log' = <<>>
  /\ timed_out_before_reset' = vad_log[Len(vad_log)][3]
  /\ UNCHANGED <<sm_vars, run_vars, io_vars, env_vars, tool_vars, app_vars>>

NextVad == VadProcess \/ VadReset

(* --------------------------- web/dashboard.py -------------------------- *)
\* how many characters the dashboard holds in the model, in its two text buffers and
\* in the entries of its transcript together
MaxText == 4

\* the characters of a transcription text: a blank and a letter
Chars == {" ", "a"}

\* the texts a call of append_transcript is given: strings of up to two characters
Fragments == {<<>>} \cup [1..1 -> Chars] \cup [1..2 -> Chars]

\* the roles append_transcript is called with by the session, and one it knows not
Speakers == {"user", "assistant"}
Roles == Speakers \cup {"system"}

\* str.lstrip: the string without its leading blanks
RECURSIVE lstrip(_)
lstrip(s) == IF s # <<>> /\ Head(s) = " " THEN lstrip(Tail(s)) ELSE s

\* str.rstrip: the string without its trailing blanks
RECURSIVE rstrip(_)
rstrip(s) ==
  IF s # <<>> /\ s[Len(s)] = " " THEN rstrip(SubSeq(s, 1, Len(s) - 1)) ELSE s

\* mutant of strip: only the leading blanks are removed
strip_left(s) == lstrip(s)

\* str.strip
strip(s) == rstrip(lstrip(s))

\* the characters of the entries of a transcript, counted together
RECURSIVE ContentLen(_)
ContentLen(t) == IF t = <<>> THEN 0 ELSE Len(Head(t).content) + ContentLen(Tail(t))

\* the fields of the DashboardState as a record
DashState(t, u, a) ==
  [transcript |-> t, user_text_buffer |-> u, assistant_text_buffer |-> a]

\* mutant of append_transcript: the text is put in front of the buffer
append_transcript_prepend(role, text, finished) ==
  IF role = "user"
    THEN IF finished /\ strip(text \o user_text_buffer) # <<>>
           THEN DashState(Append(transcript, [role |-> "user",
                                              content |-> strip(text \o user_text_buffer)]),
                          <<>>, assistant_text_buffer)
           ELSE DashState(transcript, text \o user_text_buffer, assistant_text_buffer)
  ELSE IF role = "assistant"
    THEN IF finished /\ strip(text \o assistant_text_buffer) # <<>>
           THEN DashState(Append(transcript, [role |-> "assistant",
                                              content |-> strip(text \o assistant_text_buffer)]),
                          user_text_buffer, <<>>)
           ELSE DashState(transcript, user_text_buffer, text \o assistant_text_buffer)
  ELSE DashState(transcript, user_text_buffer, assistant_text_buffer)

\* DashboardState.append_transcript: the fields after the call
append_transcript(role, text, finished) ==
  IF role = "user"
    THEN IF finished /\ strip(user_text_buffer \o text) # <<>>
           THEN DashState(Append(transcript, [role |-> "user",
                                              content |-> strip(user_text_buffer \o text)]),
                          <<>>, assistant_text_buffer)
           ELSE DashState(transcript, user_text_buffer \o text, assistant_text_buffer)
  ELSE IF role = "assistant"
    THEN IF finished /\ strip(assistant_text_buffer \o text) # <<>>
           THEN DashState(Append(transcript, [role |-> "assistant",
                                              content |-> strip(assistant_text_buffer \o text)]),
                          user_text_buffer, <<>>)
           ELSE DashState(transcript, user_text_buffer, assistant_text_buffer \o text)
  ELSE DashState(transcript, user_text_buffer, assistant_text_buffer)

\* DashboardState.clear_transcript: the fields after the call
clear_transcript == DashState(<<>>, <<>>, <<>>)

\* a call of append_transcript, by the receiver loop's on_transcript or by anyone
AppendTranscript ==
  /\ \E role \in Roles, text \in Fragments, finished \in BOOLEAN :
       /\ ContentLen(transcript) + Len(user_text_buffer) + Len(assistant_text_buffer)
            + Len(text) <= MaxText
       /\ transcript' = append_transcript(role, text, finished).transcript
       /\ user_text_buffer' = append_transcript(role, text, finished).user_text_buffer
       /\ assistant_text_buffer' =
            append_transcript(role, text, finished).assistant_text_buffer
  /\ UNCHANGED <<stop_event, robot, audio_handler, web_gemini, web_last, dropped_full>>
  /\ UNCHANGED <<sm_vars, run_vars, io_vars, ext_vars>>

\* a call of clear_transcript
ClearTranscript ==
  /\ transcript' = clear_transcript.transcript
  /\ user_text_buffer' = clear_transcript.user_text_buffer
  /\ assistant_text_buffer' = clear_transcript.assistant_text_buffer
  /\ UNCHANGED <<stop_event, robot, audio_handler, web_gemini, web_last, dropped_full>>
  /\ UNCHANGED <<sm_vars, run_vars, io_vars, ext_vars>>

\* the transcript of the dashboard on its own
NextDash == AppendTranscript \/ ClearTranscript

(* -------------------------------- main.py ------------------------------ *)
\* no orchestrator runs: the session and the state machine are driven directly
AppIdle ==
  /\ main_pc = "none"
  /\ shutdown_event = FALSE
  /\ session_start = 0
  /\ mon_pc = "none"
  /\ cap_pc = "none"
  /\ group_aborting = FALSE
  /\ cost_session = FALSE
  /\ fx = <<>>
  /\ reported = NoError
  /\ handler_exc = NoError

\* session.max_duration_sec of the configuration, in clock ticks
max_duration_sec == 2

\* session.silence_timeout_sec of the configuration, in clock ticks: the value
\* _handle_active gives to the SilenceDetector it builds
silence_timeout_sec == 1

\* the exceptions the cost database raises in the model
DbErrors == { [type |-> "Exception", msg |-> <<"server", "error">>] }

\* mutant of GeminiSessionNew: the new session takes over the token and the queues
\* of the one before
GeminiSessionNew_stale ==
  /\ attempt' = 0
  /\ backoff' = 1
  /\ go_away_received' = FALSE
  /\ reconnect_event' = FALSE
  /\ resumption_handle' = resumption_handle
  /\ session' = FALSE
  /\ live_config' = [session_resumption_handle |-> None]
  /\ status' = None
  /\ raised' = NoError
  /\ send_queue' = send_queue
  /\ playback_queue' = playback_queue
  /\ sender_pc' = "none"
  /\ sender_msg' = NoMsg
  /\ receiver_pc' = "none"
  /\ wire' = <<>>
  /\ enq_log' = <<>>
  /\ n_prod' = 0
  /\ delivered' = <<>>
  /\ slept_seq' = <<>>
  /\ recv_handle' = None
  /\ conn_error' = NoError
  /\ recv_error' = NoError

\* GeminiSession(...): the fields of a fresh session object, with fresh logs; the
\* same values stand for no session object at all
GeminiSessionNew ==
  /\ attempt' = 0
  /\ backoff' = 1
  /\ go_away_received' = FALSE
  /\ reconnect_event' = FALSE
  /\ resumption_handle' = None
  /\ session' = FALSE
  /\ live_config' = [session_resumption_handle |-> None]
  /\ status' = None
  /\ raised' = NoError
  /\ send_queue' = <<>>
  /\ playback_queue' = <<>>
  /\ sender_pc' = "none"
  /\ sender_msg' = NoMsg
  /\ receiver_pc' = "none"
  /\ wire' = <<>>
  /\ enq_log' = <<>>
  /\ n_prod' = 0
  /\ delivered' = <<>>
  /\ slept_seq' = <<>>
  /\ recv_handle' = None
  /\ conn_error' = NoError
  /\ recv_error' = NoError

\* CompanionApp.__init__ and setup up to the robot and dashboard: no session object
\* exists and no task runs
AppInit ==
  /\ pc = "none"
  /\ attempt = 0
  /\ backoff = 1
  /\ stop_event = FALSE
  /\ go_away_received = FALSE
  /\ reconnect_event = FALSE
  /\ resumption_handle = None
  /\ session = FALSE
  /\ live_config = [session_resumption_handle |-> None]
  /\ status = None
  /\ raised = NoError
  /\ send_queue = <<>>
  /\ playback_queue = <<>>
  /\ sender_pc = "none"
  /\ sender_msg = NoMsg
  /\ receiver_pc = "none"
  /\ wire = <<>>
  /\ enq_log = <<>>
  /\ n_prod = 0
  /\ delivered = <<>>
  /\ slept_seq = <<>>
  /\ recv_handle = None
  /\ conn_error = NoError
  /\ recv_error = NoError
  /\ \E simulate \in BOOLEAN, connect_ok \in BOOLEAN, import_ok \in BOOLEAN :
       /\ robot = SetupRobot(simulate, connect_ok)
       /\ audio_handler = SetupDashboard(simulate, import_ok)
  /\ web_gemini = FALSE
  /\ web_last = "none"
  /\ dropped_full = FALSE
  /\ transcript = <<>>
  /\ user_text_buffer = <<>>
  /\ assistant_text_buffer = <<>>
  /\ play_pc = "none"
  /\ main_pc = "setup"
  /\ shutdown_event = FALSE
  /\ session_start = 0
  /\ mon_pc = "none"
  /\ cap_pc = "none"
  /\ group_aborting = FALSE
  /\ cost_session = FALSE
  /\ fx = <<>>
  /\ reported = NoError
  /\ handler_exc = NoError

\* what a step of the main loop or of a phase handler leaves alone besides the state
\* machine: the session, its tasks and the detectors
app_frame ==
  /\ UNCHANGED <<run_vars, io_vars, env_vars, tool_vars, vad_vars>>
  /\ UNCHANGED <<session_start, mon_pc, cap_pc, group_aborting>>

\* the state machine is left as it is
sm_frame == UNCHANGED sm_vars

\* the end of CompanionApp.setup: SETUP_COMPLETE, then run installs the signal handlers
AppSetup ==
  /\ main_pc = "setup"
  /\ send_event("SETUP_COMPLETE")
  /\ main_pc' = "loop"
  /\ UNCHANGED <<shutdown_event, cost_session, fx, reported, handler_exc>>
  /\ app_frame

\* _handle_shutdown: SIGINT or SIGTERM arrives
Shutdown ==
  /\ main_pc # "setup"
  /\ ~shutdown_event
  /\ shutdown_event' = TRUE
  /\ UNCHANGED <<main_pc, cost_session, fx, reported, handler_exc>>
  /\ sm_frame
  /\ app_frame

\* on_wake: the wake signal arrives; it is applied only in SLEEPING
Wake ==
  /\ main_pc \notin {"setup", "exited"}
  /\ sm_state = "SLEEPING"
  /\ send_event("WAKE_WORD_DETECTED")
  /\ UNCHANGED <<main_pc, shutdown_event, cost_session, fx, reported, handler_exc>>
  /\ app_frame

\* the while condition of run is false: cleanup is awaited
LoopExit ==
  /\ main_pc = "loop"
  /\ shutdown_event
  /\ main_pc' = "cleanup"
  /\ UNCHANGED <<shutdown_event, cost_session, fx, reported, handler_exc>>
  /\ sm_frame
  /\ app_frame

\* the effects of cleanup: the robot connection, if there is one, is closed, then the
\* cost database
cleanup_effects == (IF robot THEN <<"robot_exit">> ELSE <<>>) \o <<"db_close">>

\* cleanup returned and with it run
Cleanup ==
  /\ main_pc = "cleanup"
  /\ main_pc' = "exited"
  /\ fx' = cleanup_effects
  /\ UNCHANGED <<shutdown_event, cost_session, reported, handler_exc>>
  /\ sm_frame
  /\ app_frame

\* run dispatches to _handle_sleeping, which sleeps
LoopSleeping ==
  /\ main_pc = "loop"
  /\ ~shutdown_event
  /\ sm_state = "SLEEPING"
  /\ main_pc' = "sleeping"
  /\ fx' = <<>>
  /\ UNCHANGED <<shutdown_event, cost_session, reported, handler_exc>>
  /\ sm_frame
  /\ app_frame

\* _handle_sleeping returns
SleepingDone ==
  /\ main_pc = "sleeping"
  /\ main_pc' = "loop"
  /\ UNCHANGED <<shutdown_event, cost_session, fx, reported, handler_exc>>
  /\ sm_frame
  /\ app_frame

\* run dispatches to _handle_waking: the credential probe is awaited
LoopWaking ==
  /\ main_pc = "loop"
  /\ ~shutdown_event
  /\ sm_state = "WAKING"
  /\ main_pc' = "probe"
  /\ fx' = <<>>
  /\ IF audio_handler
       THEN /\ transcript' = clear_transcript.transcript
            /\ user_text_buffer' = clear_transcript.user_text_buffer
            /\ assistant_text_buffer' = clear_transcript.assistant_text_buffer
       ELSE UNCHANGED dash_vars
  /\ UNCHANGED <<shutdown_event, cost_session, reported, handler_exc>>
  /\ UNCHANGED <<stop_event, robot, audio_handler, web_gemini, web_last, dropped_full>>
  /\ UNCHANGED <<run_vars, io_vars, tool_vars, vad_vars>>
  /\ UNCHANGED <<session_start, mon_pc, cap_pc, group_aborting>>
  /\ sm_frame

\* _handle_waking: the probe returned, or raised (Error is applied and the handler
\* returns)
WakingProbe ==
  /\ main_pc = "probe"
  /\ \E ok \in BOOLEAN :
       IF ok
         THEN /\ main_pc' = "budget"
              /\ fx' = Append(fx, "probe_ok")
              /\ sm_frame
         ELSE /\ main_pc' = "loop"
              /\ fx' = Append(fx, "ERROR")
              /\ send_event("ERROR")
  /\ UNCHANGED <<shutdown_event, cost_session, reported, handler_exc>>
  /\ app_frame

\* mutant of WakingBudget: the return after Error on an exhausted budget is missing
WakingBudget_noreturn ==
  /\ main_pc = "budget"
  /\ \/ /\ main_pc' = "wake_up"
        /\ fx' = Append(fx, "budget_ok")
        /\ handler_exc' = handler_exc
        /\ sm_frame
     \/ /\ main_pc' = "wake_up"
        /\ fx' = Append(fx, "ERROR")
        /\ handler_exc' = handler_exc
        /\ send_event("ERROR")
     \/ /\ \E e \in DbErrors : handler_exc' = e
        /\ main_pc' = "play_error"
        /\ fx' = fx
        /\ sm_frame
  /\ UNCHANGED <<shutdown_event, cost_session, reported>>
  /\ app_frame

\* _handle_waking: check_budget returned true or false, or the database raised
WakingBudget ==
  /\ main_pc = "budget"
  /\ \/ /\ main_pc' = "wake_up"
        /\ fx' = Append(fx, "budget_ok")
        /\ handler_exc' = handler_exc
        /\ sm_frame
     \/ /\ main_pc' = "loop"
        /\ fx' = Append(fx, "ERROR")
        /\ handler_exc' = handler_exc
        /\ send_event("ERROR")
     \/ /\ \E e \in DbErrors : handler_exc' = e
        /\ main_pc' = "play_error"
        /\ fx' = fx
        /\ sm_frame
  /\ UNCHANGED <<shutdown_event, cost_session, reported>>
  /\ app_frame

\* _handle_waking: the wake animation returned
WakingWakeUp ==
  /\ main_pc = "wake_up"
  /\ main_pc' = "wake_sound"
  /\ fx' = Append(fx, "wake_up")
  /\ UNCHANGED <<shutdown_event, cost_session, reported, handler_exc>>
  /\ sm_frame
  /\ app_frame

\* _handle_waking: the wake sound returned
WakingSound ==
  /\ main_pc = "wake_sound"
  /\ main_pc' = "start_session"
  /\ fx' = Append(fx, "play_wake_up")
  /\ UNCHANGED <<shutdown_event, cost_session, reported, handler_exc>>
  /\ sm_frame
  /\ app_frame

\* _handle_waking: start_session returned and SESSION_READY is applied, or the
\* database raised
WakingStartSession ==
  /\ main_pc = "start_session"
  /\ \/ /\ cost_session' = TRUE
        /\ fx' = fx \o <<"start_session", "SESSION_READY">>
        /\ send_event("SESSION_READY")
        /\ main_pc' = "loop"
        /\ handler_exc' = handler_exc
     \/ /\ \E e \in DbErrors : handler_exc' = e
        /\ main_pc' = "play_error"
        /\ UNCHANGED <<cost_session, fx>>
        /\ sm_frame
  /\ UNCHANGED <<shutdown_event, reported>>
  /\ app_frame

\* run dispatches to _handle_cooldown, which awaits the sleep sound
LoopCooldown ==
  /\ main_pc = "loop"
  /\ ~shutdown_event
  /\ sm_state = "COOLDOWN"
  /\ main_pc' = "cd_sound"
  /\ fx' = <<>>
  /\ UNCHANGED <<shutdown_event, cost_session, reported, handler_exc>>
  /\ sm_frame
  /\ app_frame

\* _handle_cooldown: the sleep sound returned, the sleep animation is awaited
CooldownSound ==
  /\ main_pc = "cd_sound"
  /\ main_pc' = "cd_anim"
  /\ fx' = Append(fx, "play_sleep")
  /\ UNCHANGED <<shutdown_event, cost_session, reported, handler_exc>>
  /\ sm_frame
  /\ app_frame

\* _handle_cooldown: the sleep animation returned, the cooldown period is awaited
CooldownAnim ==
  /\ main_pc = "cd_anim"
  /\ main_pc' = "cd_wait"
  /\ fx' = Append(fx, "go_to_sleep")
  /\ UNCHANGED <<shutdown_event, cost_session, reported, handler_exc>>
  /\ sm_frame
  /\ app_frame

\* _handle_cooldown: the cooldown period is over, COOLDOWN_COMPLETE is applied
CooldownWait ==
  /\ main_pc = "cd_wait"
  /\ main_pc' = "loop"
  /\ fx' = Append(fx, "COOLDOWN_COMPLETE")
  /\ send_event("COOLDOWN_COMPLETE")
  /\ UNCHANGED <<shutdown_event, cost_session, reported, handler_exc>>
  /\ app_frame

\* mutant of main_except: the exception of the handler is raised again
main_except_reraise ==
  /\ main_pc' = "crashed"
  /\ handler_exc' = handler_exc
  /\ sm_frame

\* the except branch of run after play_error returned: Error is applied, and a
\* ValueError of send_event is passed over
main_except ==
  /\ main_pc' = "loop"
  /\ handler_exc' = NoError
  /\ send_event("ERROR")

\* run: an exception escaped the phase handler; the error sound has been played
MainExcept ==
  /\ main_pc = "play_error"
  /\ main_except
  /\ UNCHANGED <<shutdown_event, cost_session, fx, reported>>
  /\ app_frame

(* --------------------- CompanionApp._handle_active --------------------- *)
\* the indicator list of _is_api_key_error
ApiKeyIndicators ==
  { <<"api", "key">>, <<"api_key">>, <<"invalid", "key">>, <<"unauthenticated">>,
    <<"permission", "denied">>, <<"403">>, <<"401">>, <<"authentication">>,
    <<"credentials">> }

\* CompanionApp._is_api_key_error
is_api_key_error(e) ==
  \E kw \in ApiKeyIndicators : Contains(kw, LowerStr(e.msg))

\* the error _handle_active logs (and shows on the dashboard) for a root cause
error_report(e) ==
  [type |-> e.type,
   msg |-> IF is_api_key_error(e)
             THEN <<"Gemini", "API", "key", "error:">> \o e.msg ELSE e.msg]

\* run dispatches to _handle_active up to the end of the TaskGroup body: a fresh stop
\* event, silence detector, session and group; run, the monitor and (with a robot) the
\* two audio loops are created as tasks
LoopActive ==
  /\ main_pc = "loop"
  /\ ~shutdown_event
  /\ sm_state = "ACTIVE"
  /\ stop_event' = FALSE
  /\ session_start' = now
  /\ GeminiSessionNew
  /\ pc' = "start"
  /\ UNCHANGED tool_vars
  /\ cap_pc' = IF robot THEN "top" ELSE "none"
  /\ play_pc' = IF robot THEN "top" ELSE "none"
  /\ mon_pc' = "check"
  /\ group_aborting' = FALSE
  /\ main_pc' = "group"
  /\ fx' = <<>>
  /\ reported' = NoError
  /\ web_gemini' = audio_handler
  /\ UNCHANGED <<robot, audio_handler, web_last, dropped_full, dash_vars, shutdown_event, cost_session,
                 handler_exc>>
  /\ last_speech_time' = NoTime
  /\ vad_log' = <<>>
  /\ timed_out_before_reset' = FALSE
  /\ sm_frame

\* what a step of a task of the group other than run leaves alone
task_frame ==
  /\ UNCHANGED <<sm_vars, run_vars, tool_vars, vad_vars>>
  /\ UNCHANGED <<robot, audio_handler, web_gemini, web_last, dropped_full, dash_vars>>
  /\ UNCHANGED <<main_pc, shutdown_event, session_start, group_aborting, cost_session,
                 fx, reported, handler_exc>>

\* mutant of session_monitor: the duration cap is not watched
session_monitor_nocap ==
  IF stop_event \/ shutdown_event
    THEN /\ stop_event' = TRUE
         /\ mon_pc' = "ended"
    ELSE /\ stop_event' = stop_event
         /\ mon_pc' = "sleep"

\* _session_monitor: the while condition and the body up to the sleep
session_monitor ==
  IF stop_event \/ shutdown_event
    THEN /\ stop_event' = TRUE
         /\ mon_pc' = "ended"
    ELSE IF now - session_start >= max_duration_sec
      THEN /\ stop_event' = TRUE
           /\ mon_pc' = "ended"
      ELSE /\ stop_event' = stop_event
           /\ mon_pc' = "sleep"

MonitorCheck ==
  /\ mon_pc = "check"
  /\ session_monitor
  /\ UNCHANGED <<cap_pc, io_vars>>
  /\ task_frame

\* _session_monitor: sleep(0.5) returned
MonitorSleepDone ==
  /\ mon_pc = "sleep"
  /\ mon_pc' = "check"
  /\ UNCHANGED <<stop_event, cap_pc, io_vars>>
  /\ task_frame

\* RobotAudioBridge.capture_loop: the while condition
CaptureCheck ==
  /\ cap_pc = "top"
  /\ cap_pc' = IF stop_event THEN "ended" ELSE "sample"
  /\ UNCHANGED <<stop_event, mon_pc, io_vars>>
  /\ task_frame

\* RobotAudioBridge.capture_loop: get_audio_sample returned a block, which is given to
\* send_audio, or returned None or raised, after which the loop sleeps and goes on
CaptureSample ==
  /\ cap_pc = "sample"
  /\ cap_pc' = "top"
  /\ \/ /\ Len(enq_log) < MaxEnq
        /\ send_queue' = Append(send_queue, Item("audio", Len(enq_log) + 1))
        /\ enq_log' = Append(enq_log, "audio")
     \/ UNCHANGED <<send_queue, enq_log>>
  /\ UNCHANGED <<playback_queue, sender_pc, sender_msg, receiver_pc, wire, n_prod,
                 delivered, play_pc>>
  /\ UNCHANGED <<stop_event, mon_pc>>
  /\ task_frame

\* the state of a task of the group after the group cancelled it: the two audio loops
\* catch CancelledError and break, the monitor ends cancelled
cancelled(task_pc) == IF task_pc = "none" THEN "none" ELSE "ended"

\* asyncio.TaskGroup: a task of the group raised (only run does), so the group
\* cancels the tasks that still run
GroupAbort ==
  /\ main_pc = "group"
  /\ pc = "raised"
  /\ ~group_aborting
  /\ group_aborting' = TRUE
  /\ mon_pc' = cancelled(mon_pc)
  /\ cap_pc' = cancelled(cap_pc)
  /\ play_pc' = cancelled(play_pc)
  /\ UNCHANGED <<send_queue, playback_queue, sender_pc, sender_msg, receiver_pc, wire,
                 enq_log, n_prod, delivered>>
  /\ UNCHANGED <<sm_vars, run_vars, env_vars, tool_vars, vad_vars>>
  /\ UNCHANGED <<main_pc, shutdown_event, session_start, cost_session, fx, reported,
                 handler_exc>>

\* the tasks of the group
GroupTasks == <<pc, mon_pc, cap_pc, play_pc>>

TaskDone(task_pc) == task_pc \in {"none", "ended", "done", "raised"}

\* mutant of group_done: the group ends as soon as run has ended
group_done_first == pc \in {"done", "raised"}

\* asyncio.TaskGroup.__aexit__ returns or raises once every task of the group is done
group_done == \A i \in 1..Len(GroupTasks) : TaskDone(GroupTasks[i])

\* mutant of GroupExit: the error of the group is not caught by _handle_active
GroupExit_uncaught ==
  /\ main_pc = "group"
  /\ group_done
  /\ IF pc = "raised"
       THEN main_pc' = "play_error" /\ handler_exc' = raised
       ELSE main_pc' = "end_session" /\ handler_exc' = handler_exc
  /\ web_gemini' = FALSE
  /\ UNCHANGED <<shutdown_event, session_start, mon_pc, cap_pc, group_aborting,
                 cost_session, fx, reported>>
  /\ UNCHANGED <<stop_event, robot, audio_handler, web_last, dropped_full, dash_vars>>
  /\ UNCHANGED <<sm_vars, run_vars, io_vars, tool_vars, vad_vars>>

\* mutant of detach: the session stays attached
detach_never == web_gemini

\* WebAudioHandler.detach: _gemini = None
detach == FALSE

\* _handle_active leaves the "async with": an error of the group is caught and
\* recorded, the web handler is detached, and end_session is awaited
GroupExit ==
  /\ main_pc = "group"
  /\ group_done
  /\ reported' = IF pc = "raised" THEN error_report(raised) ELSE reported
  /\ main_pc' = "end_session"
  /\ web_gemini' = detach
  /\ UNCHANGED <<shutdown_event, session_start, mon_pc, cap_pc, group_aborting,
                 cost_session, fx, handler_exc>>
  /\ UNCHANGED <<stop_event, robot, audio_handler, web_last, dropped_full, dash_vars>>
  /\ UNCHANGED <<sm_vars, run_vars, io_vars, tool_vars, vad_vars>>

\* _handle_active returns or raises: its locals (the stop event, the session object,
\* the tasks of the group, all of them done) are dropped
handler_locals_dropped ==
  /\ GeminiSessionNew
  /\ pc' = "none"
  /\ play_pc' = "none"
  /\ mon_pc' = "none"
  /\ cap_pc' = "none"
  /\ stop_event' = FALSE
  /\ session_start' = 0
  /\ group_aborting' = FALSE

\* mutant of end_event: the session always ends as a silence timeout
end_event_silence == "SILENCE_TIMEOUT"

\* the event _handle_active applies at the end of the session
end_event ==
  IF now - session_start >= max_duration_sec THEN "MAX_DURATION" ELSE "SILENCE_TIMEOUT"

\* the session object holds a resumption token, a queued outbound item and a queued
\* playback chunk
session_full ==
  resumption_handle # None /\ send_queue # <<>> /\ playback_queue # <<>>

\* _handle_active: end_session returned, and unless shutdown is set the end event is
\* applied (a ValueError of send_event is passed over); or the database raised
ActiveEnd ==
  /\ main_pc = "end_session"
  /\ \/ /\ cost_session' = FALSE
        /\ main_pc' = "loop"
        /\ handler_exc' = handler_exc
        /\ IF shutdown_event
             THEN /\ fx' = Append(fx, "end_session")
                  /\ sm_frame
             ELSE /\ fx' = fx \o <<"end_session", end_event>>
                  /\ send_event(end_event)
     \/ /\ \E e \in DbErrors : handler_exc' = e
        /\ main_pc' = "play_error"
        /\ UNCHANGED <<cost_session, fx>>
        /\ sm_frame
  /\ handler_locals_dropped
  /\ UNCHANGED <<shutdown_event, reported>>
  /\ dropped_full' = (dropped_full \/ session_full)
  /\ UNCHANGED <<robot, audio_handler, web_gemini, web_last, dash_vars, tool_vars, vad_vars>>

\* the messages of the transport while the orchestrator runs without a robot: no
\* go-away, no resumption update, no audio
AppResponses ==
  {m \in Responses : m.update = NoUpdate /\ ~m.go_away /\ m.parts = <<>>}

\* the messages of the transport while the orchestrator runs with a robot: one audio
\* part each
RobotResponses ==
  {m \in Responses : m.update = NoUpdate /\ ~m.go_away /\ m.parts = <<"data">>}

(* ------------------------------ the caller ----------------------------- *)
\* CompanionApp._session_monitor raises the stop signal
SetStop ==
  /\ ~stop_event
  /\ stop_event' = TRUE
  /\ UNCHANGED <<robot, audio_handler, web_gemini, web_last, dropped_full, dash_vars>>
  /\ UNCHANGED <<sm_vars, ext_vars, run_vars, io_vars>>

\* The connection lifecycle: run, the receiver loop on a transport that sends control
\* messages only, and the stop signal.  Nothing is enqueued, so the sender loop (which
\* writes no variable that run or the receiver reads) is left idle.
NextRun ==
  \/ RunStart \/ ConnectOk \/ ConnectError \/ RunWake \/ RunClosed \/ SleepDone
  \/ ReceiverStart \/ ReceiverMessage(ControlResponses) \/ ReceiverEnd \/ ReceiverError
  \/ SetStop

\* the server closes the stream after the go-away notice it sent
ReceiverEndAfterGoAway ==
  /\ go_away_received
  /\ ReceiverEnd

\* The lifecycle on a transport that never fails: connect succeeds, and a connection
\* ends only after a go-away notice of the server or by the stop signal.
NextGoAway ==
  \/ RunStart \/ ConnectOk \/ RunWake \/ RunClosed
  \/ ReceiverStart \/ ReceiverMessage(ControlResponses) \/ ReceiverEndAfterGoAway
  \/ SetStop

\* The outbound path: the lifecycle with the callers of send_audio / send_image and
\* the sender loop.
NextSend ==
  \/ RunStart \/ ConnectOk \/ ConnectError \/ RunWake \/ RunClosed \/ SleepDone
  \/ SenderCheck \/ SenderGet \/ SenderTimeout \/ SenderSent \/ SenderError
  \/ ReceiverStart \/ ReceiverMessage(PlainResponses) \/ ReceiverEnd
  \/ ReceiverErrorFrom(StreamErrors)
  \/ SendAudio \/ SendImage \/ SetStop

\* The inbound audio path: the lifecycle with a transport that sends audio, and the
\* readers of the playback queue.
NextPlay ==
  \/ RunStart \/ ConnectOk \/ ConnectError \/ RunWake \/ RunClosed \/ SleepDone
  \/ ReceiverStart \/ ReceiverMessage(AudioResponses) \/ ReceiverEnd
  \/ ReceiverErrorFrom(StreamErrors)
  \/ PlaybackCheck \/ PlaybackGet \/ WebEmit \/ SetStop

\* Tool calls: the lifecycle with a transport that sends messages with function calls.
NextTool ==
  \/ RunStart \/ ConnectOk \/ ConnectError \/ RunWake \/ RunClosed \/ SleepDone
  \/ ReceiverStart \/ ReceiverToolMessage \/ ToolCall \/ ToolSend \/ ToolSendError
  \/ ReceiverEnd \/ ReceiverErrorFrom(StreamErrors) \/ SetStop

(* ------------------------- the state machine alone --------------------- *)
\* a caller applies some event
SendEvent ==
  /\ \E event \in Event : send_event(event)
  /\ UNCHANGED <<run_vars, io_vars, env_vars, ext_vars>>

\* the monotonic clock advances
Tick ==
  /\ now < MaxTime
  /\ now' = now + 1
  /\ UNCHANGED <<sm_state, entered_at, sm_result, sm_event, sm_calls, cycle_pos, cycles,
                 on_transition, cb_calls>>
  /\ UNCHANGED <<run_vars, io_vars, env_vars, ext_vars>>

\* the exceptions of connect while the orchestrator runs: a permanent one that names
\* the API key and a permanent one that does not (the transient ones, which only make
\* run sleep and try again, are those of SpecRun)
AppErrors ==
  { [type |-> "Exception", msg |-> <<"Invalid", "API", "key">>],
    [type |-> "Exception", msg |-> <<"quota", "exceeded">>] }

\* the clock as _handle_active reads it: for session_start, in the monitor and for
\* elapsed after end_session
AppTick ==
  /\ main_pc \in {"group", "end_session"}
  /\ Tick

\* the steps of CompanionApp.run and of the phase handler it awaits
MainSteps ==
  \/ AppSetup \/ LoopExit \/ Cleanup \/ LoopSleeping \/ SleepingDone
  \/ LoopWaking \/ WakingProbe \/ WakingBudget \/ WakingWakeUp \/ WakingSound
  \/ WakingStartSession \/ LoopActive \/ GroupExit \/ ActiveEnd
  \/ LoopCooldown \/ CooldownSound \/ CooldownAnim \/ CooldownWait \/ MainExcept

\* the steps of GeminiSession.run, the connect call included
RunSteps ==
  RunStart \/ ConnectOk \/ ConnectErrorFrom(AppErrors) \/ RunWake \/ RunClosed \/ SleepDone

\* The orchestrator without a robot: the main loop and the phase handlers, the tasks
\* of the Active group (run and the monitor), the signals from outside and the clock.
\* The sender loop, whose steps write nothing that the orchestrator or the other tasks
\* read, is left idle until run cancels it.
NextApp ==
  \/ AppSetup \/ LoopExit \/ Cleanup \/ LoopSleeping \/ SleepingDone
  \/ LoopWaking \/ WakingProbe \/ WakingBudget \/ WakingWakeUp \/ WakingSound
  \/ WakingStartSession \/ LoopActive \/ GroupExit \/ ActiveEnd
  \/ LoopCooldown \/ CooldownSound \/ CooldownAnim \/ CooldownWait \/ MainExcept
  \/ RunStart \/ ConnectOk \/ ConnectErrorFrom(AppErrors) \/ RunWake \/ RunClosed
  \/ SleepDone
  \/ ReceiverStart \/ ReceiverMessage(AppResponses) \/ ReceiverEnd
  \/ ReceiverErrorFrom(StreamErrors)
  \/ MonitorCheck \/ MonitorSleepDone \/ GroupAbort
  \/ Shutdown \/ Wake \/ AppTick

\* The orchestrator with a robot, on a transport that stays up and sends audio: the
\* group has the capture and the playback loop as well.
NextRobot ==
  \/ AppSetup \/ LoopExit \/ Cleanup \/ LoopSleeping \/ SleepingDone
  \/ LoopWaking \/ WakingProbe \/ WakingBudget \/ WakingWakeUp \/ WakingSound
  \/ WakingStartSession \/ LoopActive \/ GroupExit \/ ActiveEnd
  \/ LoopCooldown \/ CooldownSound \/ CooldownAnim \/ CooldownWait \/ MainExcept
  \/ RunStart \/ ConnectOk \/ ConnectErrorFrom(AppErrors) \/ RunWake \/ RunClosed
  \/ ReceiverStart \/ ReceiverMessage(RobotResponses)
  \/ MonitorCheck \/ MonitorSleepDone \/ CaptureCheck \/ CaptureSample
  \/ PlaybackCheck \/ PlaybackGet \/ GroupAbort
  \/ Shutdown \/ Wake \/ AppTick

\* the messages of the transport in an Active phase of the dashboard: a resumption
\* update with a resumable handle, or one audio part
PhaseResponses ==
  {m \in Responses :
     /\ ~m.go_away
     /\ \/ m.parts = <<>> /\ m.update = [new_handle |-> "h1", resumable |-> TRUE]
        \/ m.parts = <<"data">> /\ m.update = NoUpdate}

\* The web audio handler: the orchestrator in simulate mode with the dashboard, on a
\* transport that stays up and sends audio, with the browser's audio frames and emit
\* calls at the handler.  The sender loop is left idle as in NextApp.
NextWeb ==
  \/ AppSetup \/ LoopExit \/ Cleanup \/ LoopSleeping \/ SleepingDone
  \/ LoopWaking \/ WakingProbe \/ WakingBudget \/ WakingWakeUp \/ WakingSound
  \/ WakingStartSession \/ LoopActive \/ GroupExit \/ ActiveEnd
  \/ LoopCooldown \/ CooldownSound \/ CooldownAnim \/ CooldownWait \/ MainExcept
  \/ RunStart \/ ConnectOk \/ ConnectErrorFrom(AppErrors) \/ RunWake \/ RunClosed
  \/ ReceiverStart \/ ReceiverMessage(RobotResponses)
  \/ MonitorCheck \/ MonitorSleepDone \/ GroupAbort
  \/ WebReceive \/ WebEmit \/ WebEmitNone
  \/ Shutdown \/ Wake \/ AppTick

\* Successive Active phases of the dashboard: the main loop and the phase handlers, the
\* tasks of the Active group, the session with its sender and receiver loop on a
\* transport that stays up and sends resumption updates and audio, and the browser's
\* audio frames and emit calls.  No shutdown signal arrives.
NextPhases ==
  \/ AppSetup \/ LoopSleeping \/ SleepingDone
  \/ LoopWaking \/ WakingProbe \/ WakingBudget \/ WakingWakeUp \/ WakingSound
  \/ WakingStartSession \/ LoopActive \/ GroupExit \/ ActiveEnd
  \/ LoopCooldown \/ CooldownSound \/ CooldownAnim \/ CooldownWait \/ MainExcept
  \/ RunStart \/ ConnectOk \/ ConnectErrorFrom(AppErrors) \/ RunWake \/ RunClosed
  \/ SenderCheck \/ SenderGet \/ SenderTimeout \/ SenderSent
  \/ ReceiverStart \/ ReceiverMessage(PhaseResponses)
  \/ MonitorCheck \/ MonitorSleepDone \/ GroupAbort
  \/ WebReceiveAudio \/ WebEmit
  \/ Wake \/ AppTick

Init == SMInit /\ SessionInit /\ ToolInit /\ VadInit /\ AppIdle

Next == SendEvent \/ Tick

Spec == Init /\ [][Next]_vars

\* a state machine on its own, with or without a transition callback, with or
\* without the dashboard's wrapper around it
InitSM == SMInitAny /\ SessionInit /\ ToolInit /\ VadInit /\ AppIdle

SpecSM == InitSM /\ [][Next]_vars

SpecRun == Init /\ [][NextRun]_vars

\* run's own steps are taken once enabled: the event loop resumes a task whose sleep
\* has elapsed or whose awaited event is set, and the cancelled loops end (neither
\* catches CancelledError), so gather and the close of the transport return.
FairRun ==
  Init /\ [][NextRun]_vars /\ WF_vars(RunStart \/ RunWake \/ RunClosed \/ SleepDone)

SpecGoAway == Init /\ [][NextGoAway]_vars

SpecSend == Init /\ [][NextSend]_vars

SpecPlay == Init /\ [][NextPlay]_vars

\* a session on its own, with or without a tool-call callback
InitTool == SMInit /\ SessionInit /\ ToolInitAny /\ VadInit /\ AppIdle

SpecTool == InitTool /\ [][NextTool]_vars

SpecVad == Init /\ [][NextVad]_vars

SpecDash == Init /\ [][NextDash]_vars

InitApp == SMInit /\ AppInit /\ ToolInit /\ VadInit

\* simulate mode, or the connection to the robot failed
InitSim == InitApp /\ ~robot

\* the robot was connected
InitRobot == InitApp /\ robot

SpecApp == InitSim /\ [][NextApp]_vars

\* simulate mode, and the dashboard was set up
InitWeb == InitApp /\ audio_handler

SpecWeb == InitWeb /\ [][NextWeb]_vars

SpecPhases == InitWeb /\ [][NextPhases]_vars

\* Every task is resumed once it can go on: the main loop and its handler, run (a
\* connect call returns or raises), the monitor and the group's cancellation.  Nothing
\* is assumed of the clock, of the signals from outside or of what the transport
\* delivers.
FairApp ==
  /\ InitSim
  /\ [][NextApp]_vars
  /\ WF_vars(MainSteps)
  /\ WF_vars(RunSteps)
  /\ WF_vars(MonitorCheck \/ MonitorSleepDone)
  /\ WF_vars(GroupAbort)

SpecRobot == InitRobot /\ [][NextRobot]_vars

\* As FairApp, and the clock advances while a session is on; the capture loop and the
\* playback loop are resumed once they can go on (the playback loop, suspended in
\* get_playback_audio, once a chunk is queued).
FairRobot ==
  /\ InitRobot
  /\ [][NextRobot]_vars
  /\ WF_vars(MainSteps)
  /\ WF_vars(RunSteps)
  /\ WF_vars(MonitorCheck \/ MonitorSleepDone)
  /\ WF_vars(CaptureCheck \/ CaptureSample)
  /\ WF_vars(PlaybackCheck \/ PlaybackGet)
  /\ WF_vars(GroupAbort)
  /\ WF_vars(AppTick)

\* the inbound audio path with run and the playback loop resumed once they can go on
FairPlay ==
  /\ Init /\ [][NextPlay]_vars
  /\ WF_vars(RunStart \/ RunWake \/ RunClosed \/ SleepDone)
  /\ WF_vars(PlaybackCheck \/ PlaybackGet)

(* ============================== claims ================================= *)

\* The transition table of the specification (section 3), as a set of
\* <<from, event, to>> rows.
SpecTable ==
  { <<"SETUP", "SETUP_COMPLETE", "SLEEPING">>,
    <<"SLEEPING", "WAKE_WORD_DETECTED", "WAKING">>,
    <<"WAKING", "SESSION_READY", "ACTIVE">>,
    <<"WAKING", "ERROR", "SLEEPING">>,
    <<"ACTIVE", "SILENCE_TIMEOUT", "COOLDOWN">>,
    <<"ACTIVE", "MAX_DURATION", "COOLDOWN">>,
    <<"ACTIVE", "ERROR", "COOLDOWN">>,
    <<"COOLDOWN", "COOLDOWN_COMPLETE", "SLEEPING">>,
    <<"COOLDOWN", "ERROR", "SLEEPING">> }

\* a step that is a call of send_event
IsSendEvent == sm_calls' # sm_calls

ScriptState(p) ==
  CASE p = 0 -> "SETUP"
    [] p = 1 -> "SLEEPING"
    [] p = 2 -> "WAKING"
    [] p = 3 -> "ACTIVE"
    [] p = 4 -> "COOLDOWN"

\* C2: from SETUP, SetupComplete followed by any number of repetitions of
\* (WakeWordDetected, SessionReady, SilenceTimeout | MaxDuration, CooldownComplete) is
\* accepted without error, and the phase is SLEEPING after every repetition; every
\* accepted transition sets the entry timestamp to the time of the transition, so
\* time_in_state is zero right after it.
C2_CycleAndEntryTime ==
  /\ [](cycle_pos # -1 =>
          /\ sm_result # "ValueError"
          /\ sm_state = ScriptState(cycle_pos))
  /\ [][ (IsSendEvent /\ sm_result' # "ValueError") =>
           (entered_at' = now' /\ now' - entered_at' = 0) ]_vars

\* C2 witness: two repetitions of the script completed, the last one after the clock
\* had advanced, and the machine is back in SLEEPING with time_in_state = 0.
C2_Witness ==
  /\ cycle_pos = 1
  /\ cycles = 2
  /\ sm_event = "COOLDOWN_COMPLETE"
  /\ sm_state = "SLEEPING"
  /\ now > 0
  /\ time_in_state = 0

\* the backoff delays of the specification for ten successive failures
BackoffSeq == <<1, 2, 4, 8, 16, 30, 30, 30, 30, 30>>

IsPrefix(a, b) == Len(a) <= Len(b) /\ \A i \in 1..Len(a) : a[i] = b[i]

\* C3: the delays slept since the last successful connection (or since run began)
\* are 1, 2, 4, 8, 16, 30, 30, 30, 30, 30 in that order: ten successive failed
\* attempts sleep exactly this sequence, and the first delay after any successful
\* connection is 1 again.
C3_BackoffSequence == IsPrefix(slept_seq, BackoffSeq)

\* C3 witness: ten successive connection attempts failed and the ten delays were slept.
C3_Witness == slept_seq = BackoffSeq /\ attempt = max_retries /\ pc = "sleeping"

\* C4: when a go-away was received on a connection and that connection has ended
\* without the stop signal raised, run starts the next connection attempt at once,
\* sleeping nothing and leaving the backoff as it is; when no go-away was received it
\* sleeps the current backoff first.
C4_GoAwayReconnects ==
  [][ (pc = "closing" /\ pc' # "closing" /\ ~stop_event) =>
        IF go_away_received
          THEN /\ pc' = "connecting"
               /\ attempt' = attempt + 1
               /\ slept_seq' = slept_seq
               /\ backoff' = backoff
          ELSE /\ pc' = "sleeping"
               /\ slept_seq' = Append(slept_seq, backoff)
               /\ attempt' = attempt ]_vars

\* C4, what the code does: as above while one of the max_retries iterations of the
\* loop is left; after the last one the go-away disconnect makes run return.
C4_GoAwayNoBackoff ==
  [][ (pc = "closing" /\ pc' # "closing" /\ ~stop_event) =>
        IF go_away_received
          THEN /\ slept_seq' = slept_seq
               /\ backoff' = backoff
               /\ IF attempt < max_retries
                    THEN pc' = "connecting" /\ attempt' = attempt + 1
                    ELSE pc' = "done" /\ attempt' = attempt
          ELSE /\ pc' = "sleeping"
               /\ slept_seq' = Append(slept_seq, backoff)
               /\ attempt' = attempt ]_vars

\* C4 witness: a reconnection attempt is under way right after a go-away disconnect:
\* the stop signal is not raised and nothing was slept since the connection succeeded,
\* although an earlier attempt of the run had failed and raised the backoff.
C4_Witness ==
  /\ pc = "connecting"
  /\ attempt >= 3
  /\ ~stop_event
  /\ slept_seq = <<>>
  /\ backoff = 1
  /\ conn_error = NoError

\* C5: the configuration of the first connection of a run carries no resumption
\* handle, and the configuration of every later connection carries the latest
\* resumable handle that a message processed on an earlier connection carried.
C5_ResumptionInConfig ==
  pc = "connecting" =>
    live_config.session_resumption_handle =
      (IF attempt = 1 THEN None ELSE recv_handle)

\* C5 witness: a later connection is being opened with the handle h2, which replaced
\* no handle at all on the first connection.
C5_Witness ==
  /\ pc = "connecting"
  /\ attempt >= 2
  /\ recv_handle = "h2"
  /\ live_config.session_resumption_handle = "h2"

\* the errors test_permanent_error_detection (and the specification, section 4.1
\* step 5) call permanent
ClaimedPermanent ==
  { e \in Errors :
      \/ e.type \in {"ValueError", "TypeError"}
      \/ e.msg \in { <<"Invalid", "API", "key">>, <<"UNAUTHENTICATED">>,
                     <<"403", "Forbidden">>, <<"quota", "exceeded">>,
                     <<"permission", "denied">>,
                     <<"not", "supported", "in", "Gemini", "API">> } }

\* C6: when connect raises a permanent error, run raises that error to its caller in
\* the same step: nothing is slept, and afterwards run makes no further attempt.
C6_PermanentErrorRaised ==
  /\ [][ (pc = "connecting" /\ conn_error' # conn_error /\ conn_error' \in ClaimedPermanent) =>
           /\ pc' = "raised"
           /\ raised' = conn_error'
           /\ slept_seq' = slept_seq
           /\ attempt' = attempt ]_vars
  /\ [][ pc = "raised" =>
           (pc' = "raised" /\ attempt' = attempt /\ slept_seq' = slept_seq) ]_vars

\* C6 witness: run raised a quota error from its third connection attempt, after two
\* transient failures.
C6_Witness ==
  /\ pc = "raised"
  /\ raised = [type |-> "Exception", msg |-> <<"quota", "exceeded">>]
  /\ attempt = 3
  /\ slept_seq = <<1, 2>>

\* C7: run never makes more than max_retries connection attempts; when the last of
\* them has failed transiently or ended in an unexpected disconnect, run ends its
\* sleep and returns normally (nothing is raised).
C7_AttemptCapReturns ==
  /\ [](attempt <= max_retries)
  /\ [][ (pc = "sleeping" /\ attempt = max_retries /\ pc' # "sleeping") =>
           (pc' = "done" /\ raised' = NoError /\ attempt' = attempt) ]_vars
  /\ ((pc = "sleeping" /\ attempt = max_retries) ~> (pc = "done" /\ raised = NoError))

\* C7 witness: run has returned after ten failed attempts, the stop signal not raised.
C7_Witness ==
  /\ pc = "done"
  /\ attempt = max_retries
  /\ slept_seq = BackoffSeq
  /\ ~stop_event
  /\ raised = NoError

\* C8 as stated: once the stop signal is raised, run returns without raising, so it
\* never raises after that.
C8_NeverRaisesAfterStop ==
  [][ stop_event => pc' # "raised" ]_vars

\* C8 amended: once the stop signal is raised run begins no further connection
\* attempt, and from wherever it then is (not yet started, connected, closing a
\* connection with or without a go-away, sleeping a backoff) it returns without
\* raising.  Only a connect call already in flight when the signal is raised is still
\* completed, and run raises after the signal only a permanent error of that call.
C8_StopHasPriority ==
  /\ [][ stop_event => (attempt' = attempt /\ (pc' = "connecting" => pc = "connecting")) ]_vars
  /\ [][ (stop_event /\ pc' = "raised" /\ pc # "raised") =>
           (pc = "connecting" /\ raised' = conn_error' /\ conn_error' \in ClaimedPermanent) ]_vars
  /\ ((stop_event /\ pc \in {"start", "waiting", "closing", "sleeping"})
        ~> (pc = "done" /\ raised = NoError))

\* C8 witness: run has returned on the stop signal from a connection that had received
\* a go-away, with attempts left.
C8_Witness ==
  /\ pc = "done"
  /\ stop_event
  /\ go_away_received
  /\ attempt < max_retries
  /\ raised = NoError

\* C9: what the transport is given is in enqueue order, each item through the field
\* of its kind: the data of successive sends increase (no later item before an
\* earlier one, none twice), and the n-th enqueued item, if sent, is sent as audio
\* (audio/pcm) when it was enqueued by send_audio and as media (image/jpeg) when by
\* send_image; this holds across reconnections.
C9_SendOrder ==
  /\ \A i \in 1..Len(wire) :
       /\ wire[i].blob.data \in 1..Len(enq_log)
       /\ enq_log[wire[i].blob.data] = "audio" =>
            (wire[i].blob.field = "audio" /\ wire[i].blob.mime_type = "audio/pcm")
       /\ enq_log[wire[i].blob.data] = "image" =>
            (wire[i].blob.field = "media" /\ wire[i].blob.mime_type = "image/jpeg")
  /\ \A i \in 1..Len(wire), j \in 1..Len(wire) :
       i < j => wire[i].blob.data < wire[j].blob.data

\* C9 witness: an audio item then an image item were enqueued and both were sent, the
\* audio on the first connection and the image on a reconnection.
C9_Witness ==
  /\ enq_log = <<"audio", "image">>
  /\ Len(wire) = 2
  /\ wire[1].blob.field = "audio" /\ ~wire[1].reconnected
  /\ wire[2].blob.field = "media" /\ wire[2].reconnected

\* the chunks queued so far, returned or still waiting, in queue order
Queued == [i \in 1..Len(delivered) |-> delivered[i][2]] \o playback_queue

C11_ToolErrorCaught ==
  /\ [][ (receiver_pc = "tool" /\ pc' = pc /\ <<receiver_pc, tool_vars>>' # <<receiver_pc, tool_vars>>) =>
           LET name == recv_msg.calls[tool_i]
               last == tool_results'[Len(tool_results')]
           IN /\ receiver_pc' \in {"tool", "toolsend"}
              /\ Len(tool_results') = Len(tool_results) + 1
              /\ last[1] = name
              /\ (tool_raised'[Len(tool_raised')] =>
                    \E e \in ToolErrors : last[2] = <<"Error:">> \o e.msg)
              /\ (~tool_raised'[Len(tool_raised')] => last[2][1] # "Error:")
              /\ receiver_pc' = (IF tool_i = Len(recv_msg.calls) THEN "toolsend" ELSE "tool")
              /\ reconnect_event' = reconnect_event
              /\ session' = session ]_vars
  /\ [][ (receiver_pc = "toolsend" /\ n_tool_sent' = n_tool_sent + 1) =>
           /\ Len(tool_sent') = Len(recv_msg.calls)
           /\ \A i \in 1..Len(recv_msg.calls) : tool_sent'[i][1] = recv_msg.calls[i]
           /\ tool_sent' = tool_results
           /\ receiver_pc' = "recv"
           /\ reconnect_event' = reconnect_event
           /\ pc' = pc ]_vars

\* C11 witness: the callback raised during the first message with function calls, its
\* response was sent, and a second such message was then handled and answered on the
\* same connection, the receiver still waiting for more.
C11_Witness ==
  /\ err_at = 1
  /\ n_tool_sent = 2
  /\ receiver_pc = "recv"
  /\ pc = "waiting"
  /\ attempt = 1
  /\ ~reconnect_event
  /\ \E i \in 1..Len(tool_sent) : tool_sent[i][2][1] # "Error:"

\* the last-speech time the calls logged so far define: the time of the most recent
\* loud block among the first n, or of the first block when none was loud
RefLastSpeech(n) ==
  IF \E i \in 1..n : vad_log[i][2]
    THEN LET i == CHOOSE i \in 1..n : vad_log[i][2] /\ \A j \in (i + 1)..n : ~vad_log[j][2]
         IN vad_log[i][1]
    ELSE vad_log[1][1]

\* the times and loudness flags of the calls logged so far
VadCalls == [i \in 1..Len(vad_log) |-> <<vad_log[i][1], vad_log[i][2]>>]
VadReturns == [i \in 1..Len(vad_log) |-> vad_log[i][3]]

\* C12: process(block, now) returns true exactly when the block's RMS is below the
\* threshold and now minus the last-speech time is at least the timeout, the
\* last-speech time being the time of the most recent block with RMS >= threshold or,
\* when there was none, of the first block processed (since construction or reset); a
\* block with RMS >= threshold returns false and makes now the last-speech time.  With
\* threshold 200 and timeout 2 s: silent blocks at 0, 1 and 2.5 s return false, false,
\* true; silent 0, loud 1.5, silent 2.5, silent 4.0 return false, false, false, true.
C12_SilenceDetector ==
  /\ \A n \in 1..Len(vad_log) :
       /\ vad_log[n][3] = (~vad_log[n][2] /\ vad_log[n][1] - RefLastSpeech(n) >= timeout_halfsec)
       /\ (vad_log[n][2] => ~vad_log[n][3])
  /\ (vad_log # <<>> => last_speech_time = <<RefLastSpeech(Len(vad_log))>>)
  /\ (VadCalls = << <<0, FALSE>>, <<2, FALSE>>, <<5, FALSE>> >>
        => VadReturns = <<FALSE, FALSE, TRUE>>)
  /\ (VadCalls = << <<0, FALSE>>, <<3, TRUE>>, <<5, FALSE>>, <<8, FALSE>> >>
        => VadReturns = <<FALSE, FALSE, FALSE, TRUE>>)

\* C12 witness: the second example has been run to its end.
C12_Witness ==
  vad_log = << <<0, FALSE, FALSE>>, <<3, TRUE, FALSE>>, <<5, FALSE, FALSE>>, <<8, FALSE, TRUE>> >>

(* ---- C13 ---- *)
\* run has returned with its attempts used up and the stop signal not raised, while the
\* duration cap of the session is still ahead on the clock
RunExhausted ==
  /\ main_pc = "group"
  /\ pc = "done"
  /\ ~stop_event
  /\ ~shutdown_event
  /\ now - session_start < max_duration_sec
  /\ session_start + max_duration_sec <= MaxTime

\* C13: during ACTIVE, once a task of the group has finished the siblings are cancelled
\* and the group ends; in particular, once run has returned with its attempts used up,
\* the Active handler leaves the group without the monitor's duration trigger (whatever
\* the clock does).
C13_GroupEndsOnFirstExit == RunExhausted ~> (main_pc # "group")

(* ---- C14 ---- *)
LoopOver(loop_pc) == loop_pc \in {"none", "ended"}

\* C14: when _handle_active is past the group (end_session is awaited, the end event
\* is applied) every task of the group and the sender and receiver loop of its session
\* have terminated, and no such task exists while the handler of another phase runs.
C14_NoLeak ==
  /\ main_pc = "end_session" =>
        /\ \A i \in 1..Len(GroupTasks) : TaskDone(GroupTasks[i])
        /\ LoopOver(sender_pc) /\ LoopOver(receiver_pc)
        /\ ~session
  /\ main_pc \notin {"group", "end_session"} =>
        /\ \A i \in 1..Len(GroupTasks) : GroupTasks[i] = "none"
        /\ sender_pc = "none" /\ receiver_pc = "none"
  /\ sm_state # "ACTIVE" => main_pc \notin {"group", "end_session"}

\* the group of a session with a robot has ended after the stop signal: run was
\* connected, and the monitor, the capture loop and the playback loop ran
C14_Witness ==
  /\ main_pc = "end_session"
  /\ pc = "done" /\ attempt = 1 /\ stop_event
  /\ mon_pc = "ended" /\ cap_pc = "ended" /\ play_pc = "ended"
  /\ sender_pc = "ended" /\ receiver_pc = "ended"
  /\ delivered # <<>>

(* ---- C15 ---- *)
\* C15: once the time elapsed in an Active phase has reached max_duration_sec, the
\* phase is left (for COOLDOWN), with a robot as without one and whatever the
\* transport delivers; a shutdown request, after which no transition is applied, is
\* set aside.
C15_MaxDurationEndsActive ==
  (sm_state = "ACTIVE" /\ main_pc = "group" /\ now - session_start >= max_duration_sec)
    ~> (sm_state # "ACTIVE" \/ shutdown_event)

(* ---- C16 ---- *)
\* C16: a caller suspended in get_playback_audio when the session has been torn down
\* (the stop signal raised and run returned) is released, whether or not another chunk
\* arrives.
C16_PlaybackCallerReleased ==
  (play_pc = "getting" /\ stop_event /\ pc = "done") ~> (play_pc # "getting")

(* ---- C17 ---- *)
\* where _handle_waking can be suspended
WakingPcs == {"probe", "budget", "wake_up", "wake_sound", "start_session"}

\* the effects of _handle_waking when both checks pass
WakeSequence ==
  <<"probe_ok", "budget_ok", "wake_up", "play_wake_up", "start_session", "SESSION_READY">>

\* the effects of _handle_waking when the probe failed, and when the budget is exhausted
WakeRefused == {<<"ERROR">>, <<"probe_ok", "ERROR">>}

C18_EndOfSession ==
  /\ [][ (main_pc = "end_session" /\ main_pc' = "loop" /\ ~shutdown_event) =>
           LET elapsed == now - session_start
               ev == IF elapsed >= max_duration_sec THEN "MAX_DURATION"
                                                    ELSE "SILENCE_TIMEOUT"
           IN /\ fx' = fx \o <<"end_session", ev>>
              /\ ~cost_session'
              /\ sm_state = "ACTIVE"
              /\ sm_state' = "COOLDOWN"
              /\ sm_event' = ev
              /\ sm_result' = "COOLDOWN"
              /\ sm_calls' = 1 - sm_calls
              /\ entered_at' = now ]_vars
  /\ [][ (main_pc = "group" /\ main_pc' # "group") =>
           (main_pc' = "end_session" /\ UNCHANGED <<sm_vars, cost_session, fx>>) ]_vars
  /\ [](main_pc \in {"group", "end_session"} => (sm_state = "ACTIVE" /\ fx = <<>>))

\* a session that reached the duration cap has ended
C18_Witness ==
  /\ main_pc = "loop"
  /\ sm_state = "COOLDOWN"
  /\ sm_event = "MAX_DURATION"
  /\ fx = <<"end_session", "MAX_DURATION">>
  /\ ~cost_session
  /\ ~shutdown_event
  /\ reported = NoError

(* ---- C19 ---- *)
\* the message of an error report names the API key
NamesApiKey(r) ==
  Len(r.msg) > 4 /\ SubSeq(r.msg, 1, 4) = <<"Gemini", "API", "key", "error:">>

\* C19: when the Active group fails with an error (a permanent error raised by run),
\* _handle_active catches it and records it, with a message that names the API key
\* exactly for credential errors; it still awaits end_session and applies the ordinary
\* end event, so that the machine enters COOLDOWN; nothing reaches the main loop, which
\* goes on.
C19_GroupErrorCaught ==
  /\ [][ (main_pc = "group" /\ pc = "raised" /\ main_pc' # "group") =>
           /\ main_pc' = "end_session"
           /\ reported' = error_report(raised)
           /\ reported'.type = raised.type
           /\ NamesApiKey(reported') = is_api_key_error(raised)
           /\ handler_exc' = NoError
           /\ mon_pc = "ended" ]_vars
  /\ [][ (main_pc = "end_session" /\ pc = "raised" /\ main_pc' = "loop" /\ ~shutdown_event) =>
           /\ reported' = reported /\ reported # NoError
           /\ ~cost_session'
           /\ fx' = <<"end_session", sm_event'>>
           /\ sm_event' \in {"SILENCE_TIMEOUT", "MAX_DURATION"}
           /\ sm_state' = "COOLDOWN"
           /\ handler_exc' = NoError ]_vars
  /\ [](handler_exc # NoError => handler_exc \in DbErrors)
  /\ [](main_pc \in {"cleanup", "exited"} => shutdown_event)
  /\ (main_pc = "group" /\ pc = "raised") ~> (sm_state = "COOLDOWN" \/ shutdown_event)

\* a session that ended with a credential error of run has been closed as usual
C19_Witness ==
  /\ main_pc = "cd_sound"
  /\ sm_state = "COOLDOWN"
  /\ sm_event = "SILENCE_TIMEOUT"
  /\ NamesApiKey(reported)
  /\ ~cost_session
  /\ ~shutdown_event

(* ---- C20 ---- *)
\* C20: an exception that escapes a phase handler does not end the main loop: after the
\* error sound the controller applies Error, which changes the phase when (phase,
\* Error) is in the transition table and is passed over when it is not, and the loop
\* goes on; the loop is left (for cleanup) only with the shutdown signal set.
C20_MainLoopSurvives ==
  /\ [][ (main_pc = "play_error" /\ main_pc' # "play_error") =>
           /\ handler_exc # NoError
           /\ main_pc' = "loop"
           /\ handler_exc' = NoError
           /\ sm_event' = "ERROR"
           /\ IF <<sm_state, "ERROR", sm_state'>> \in SpecTable
                THEN sm_result' = sm_state' /\ entered_at' = now
                ELSE /\ \A s \in State : <<sm_state, "ERROR", s>> \notin SpecTable
                     /\ UNCHANGED <<sm_state, entered_at>> ]_vars
  /\ [][ (main_pc' \in {"cleanup", "exited"} /\ main_pc' # main_pc) =>
           (shutdown_event /\ main_pc = (IF main_pc' = "cleanup" THEN "loop" ELSE "cleanup")) ]_vars
  /\ [](main_pc \in {"setup", "loop", "sleeping", "probe", "budget", "wake_up",
                      "wake_sound", "start_session", "group", "end_session", "cd_sound",
                      "cd_anim", "cd_wait", "play_error", "cleanup", "exited"})
  /\ (main_pc = "play_error") ~> (main_pc = "loop")

\* the cost database failed in end_session and the controller turned the exception
\* into Error: the phase went from ACTIVE to COOLDOWN and the loop goes on
C20_Witness ==
  /\ main_pc = "cd_sound"
  /\ sm_state = "COOLDOWN"
  /\ sm_event = "ERROR"
  /\ cost_session
  /\ handler_exc = NoError
  /\ ~shutdown_event

(* ---- C21 ---- *)
\* C21: once the shutdown signal is set, in whatever phase, the handler in progress
\* returns, the main loop is left and cleanup runs, once: the robot connection (if
\* any) and the cost database are closed and run has returned.
C21_ShutdownCleansUp ==
  shutdown_event ~> (main_pc = "exited" /\ fx = cleanup_effects)

(* ---- C22 ---- *)
\* C22: during ACTIVE, silence that has lasted silence_timeout_sec ends the session
\* before the duration cap: a poll of the session monitor made when no speech has been
\* observed for that long raises the stop signal.
C22_SilenceEndsSession ==
  [][ ( /\ main_pc = "group"
        /\ mon_pc = "check" /\ mon_pc' # "check"
        /\ ~shutdown_event
        /\ last_speech_time = NoTime
        /\ now - session_start >= silence_timeout_sec )
      => stop_event' ]_vars

(* ---- C23 ---- *)
\* C23: the resumption handle of a session changes only in a step of the receiver that
\* processes (stop not raised) an update marked resumable with a non-empty handle, and
\* then becomes that handle; it always equals the latest such handle processed, so no
\* other update, no go-away, reconnect, error, backoff or stop changes it, and once
\* set it is never absent again.
C23_TokenOnlyFromResumableUpdate ==
  /\ [][ resumption_handle' # resumption_handle =>
           /\ receiver_pc = "recv" /\ receiver_pc' = "recv"
           /\ ~stop_event
           /\ session
           /\ pc' = pc /\ attempt' = attempt /\ backoff' = backoff
           /\ resumption_handle' \in Handles
           /\ resumption_handle' = recv_handle' ]_vars
  /\ [][ Truthy(resumption_handle) => Truthy(resumption_handle') ]_vars
  /\ [](resumption_handle = recv_handle)

\* the handle h1 has been kept over two reconnections and a backoff
C23_Witness ==
  /\ resumption_handle = "h1"
  /\ attempt = 3
  /\ pc = "connecting"
  /\ backoff = 2
  /\ conn_error = NoError
  /\ slept_seq = <<1>>
  /\ ~stop_event

(* ---- C24 ---- *)
\* C24 as stated: the first connection attempt of a run is announced as "connecting"
\* and every later one as "reconnecting".
C24_LaterAttemptsReconnecting ==
  pc = "connecting" => status = (IF attempt = 1 THEN "connecting" ELSE "reconnecting")

\* C24, amended: every connection attempt is announced, as "reconnecting" when the
\* session holds a resumption handle and as "connecting" when it does not (so the
\* first attempt is "connecting"); "connected" is given once per opened connection,
\* in the step in which the open succeeded and the two loops are created, before
\* either has run; nothing else calls the status callback.
C24_StatusFollowsLifecycle ==
  /\ [](pc = "connecting" =>
          status = (IF Truthy(resumption_handle) THEN "reconnecting" ELSE "connecting"))
  /\ []((pc = "connecting" /\ attempt = 1) => status = "connecting")
  /\ [][ (pc # "connecting" /\ pc' = "connecting") =>
           (attempt' = attempt + 1 /\ status' \in {"connecting", "reconnecting"}) ]_vars
  /\ [][ (pc = "connecting" /\ pc' = "waiting") =>
           /\ status' = "connected"
           /\ session'
           /\ sender_pc' = "top" /\ receiver_pc' = "start" ]_vars
  /\ [][ status' # status =>
           \/ (pc # "connecting" /\ pc' = "connecting")
           \/ (pc = "connecting" /\ pc' = "waiting") ]_vars
  /\ [](pc \in {"waiting", "closing"} => status = "connected")

\* the second attempt of a run that holds no resumption handle, after the first
\* connection was opened and lost: it is announced as "connecting"
C24_Witness ==
  /\ pc = "connecting"
  /\ attempt = 2
  /\ status = "connecting"
  /\ resumption_handle = None
  /\ conn_error = NoError
  /\ slept_seq = <<1>>

(* ---- C25 ---- *)
\* C25: a permanent error that the receiver loop met on an open connection is not
\* retried: run begins no further connection attempt, does not wait in backoff and
\* does not return normally, but raises that error to its caller.
C25_PermanentStreamErrorRaised ==
  /\ [][ is_permanent_error(recv_error) => attempt' = attempt ]_vars
  /\ []((is_permanent_error(recv_error) /\ pc \in {"sleeping", "done", "raised"}) =>
          raised = recv_error)

(* ---- C26 ---- *)
\* C26: go-away reconnects do not use up the retry attempts: on a transport whose
\* connections end only through go-away notices, run returns only when the stop
\* signal has been raised.
C26_GoAwayNotCounted ==
  pc = "done" => stop_event

(* ---- C27 ---- *)
\* C27: the bound of run is on the connection attempts of the invocation: every
\* call of connect is counted once, the count never goes back, a successful
\* connection resets the backoff and leaves the count as it is, and a connection is
\* opened only by a counted attempt; so at most max_retries connections are opened.
C27_TotalAttemptsBounded ==
  /\ [][ (pc # "connecting" /\ pc' = "connecting") => attempt' = attempt + 1 ]_vars
  /\ [][ attempt' # attempt => (attempt' = attempt + 1 /\ pc' = "connecting") ]_vars
  /\ [][ (pc = "connecting" /\ pc' = "waiting") =>
           (backoff' = 1 /\ attempt' = attempt) ]_vars
  /\ [][ (session' /\ ~session) => (pc = "connecting" /\ attempt \in 1..max_retries) ]_vars
  /\ [](pc \in {"connecting", "waiting", "closing"} => attempt \in 1..max_retries)

\* the tenth attempt of a run connected, with the backoff reset by it, and the
\* connection was then lost: run slept the initial delay and gave up, the stop signal
\* not raised and nothing raised
C27_Witness ==
  /\ pc = "done"
  /\ attempt = max_retries
  /\ ~stop_event
  /\ slept_seq = <<1>>
  /\ backoff = 2
  /\ raised = NoError

(* ---- C28 ---- *)
\* neither loop of the session is running: not created yet, or terminated
LoopsEnded ==
  /\ sender_pc \in {"none", "ended"}
  /\ receiver_pc \in {"none", "ended"}

\* C28: the sender and the receiver loop of a connection are created only when no
\* loop of an earlier connection is running, so there is never more than one of each;
\* a loop runs only while run waits inside the connection's context; and both have
\* terminated when run leaves that context (the transport is closed), sleeps, begins
\* the next attempt, returns or raises.
C28_LoopsEndBeforeClose ==
  /\ [][ (pc = "connecting" /\ pc' = "waiting") => LoopsEnded ]_vars
  /\ [][ (sender_pc' = "top" /\ sender_pc \in {"none", "ended"}) =>
           (pc = "connecting" /\ pc' = "waiting") ]_vars
  /\ [][ (receiver_pc' = "start" /\ receiver_pc # "start") =>
           (pc = "connecting" /\ pc' = "waiting" /\ receiver_pc \in {"none", "ended"}) ]_vars
  /\ [](~LoopsEnded => (pc = "waiting" /\ session))
  /\ [][ (session /\ ~session') => LoopsEnded' ]_vars
  /\ [](pc \in {"closing", "sleeping", "connecting", "done", "raised"} => LoopsEnded)

\* the second attempt of a run begins: the loops of the first connection, which sent
\* an item, have both terminated
C28_Witness ==
  /\ pc = "connecting"
  /\ attempt = 2
  /\ sender_pc = "ended"
  /\ receiver_pc = "ended"
  /\ Len(wire) = 1
  /\ send_queue # <<>>

(* ---- C29 ---- *)
\* C29: no outbound item is lost: while the stop signal is not raised, every item
\* that was enqueued is still in the send queue, or in the hands of the sender loop,
\* or has been given to the transport (so that it can still be, or has been,
\* forwarded).
C29_NoOutboundLoss ==
  ~stop_event =>
    \A n \in 1..Len(enq_log) :
      \/ \E i \in 1..Len(send_queue) : send_queue[i][2] = n
      \/ sender_msg[2] = n
      \/ \E i \in 1..Len(wire) : wire[i].blob.data = n

(* ---- C30 ---- *)
\* C30: the receiver loop sets the reconnect signal when it processes a go-away
\* notice, and when it ends on the end of the stream or on an error, in each case
\* with the stop signal not raised; once the stop signal is raised the reconnect
\* signal is not set any more.
C30_ReconnectSignal ==
  /\ [][ (~go_away_received /\ go_away_received') => reconnect_event' ]_vars
  /\ [][ (receiver_pc = "recv" /\ receiver_pc' = "ended" /\ ~stop_event) =>
           reconnect_event' ]_vars
  /\ [][ (stop_event /\ ~reconnect_event) => ~reconnect_event' ]_vars

(* ---- C31 ---- *)
\* C31: when the callbacks of all function calls of a message have completed, one
\* tool response is given to the session of the current connection: it has one entry
\* per function call, in the order of the calls and under their names, and without a
\* registered callback every result is the empty string; a message is answered at
\* most once.
C31_OneResponsePerMessage ==
  /\ [](receiver_pc = "toolsend" =>
          /\ session /\ pc = "waiting"
          /\ Len(tool_results) = Len(recv_msg.calls)
          /\ Len(tool_results) >= 1
          /\ \A i \in 1..Len(recv_msg.calls) :
               /\ tool_results[i][1] = recv_msg.calls[i]
               /\ (~on_tool_call => tool_results[i][2] = EmptyString))
  /\ [][ (receiver_pc = "tool" /\ tool_i = Len(recv_msg.calls) /\ pc' = pc
          /\ Len(tool_results') = Len(recv_msg.calls)) =>
           receiver_pc' = "toolsend" ]_vars
  /\ [][ n_tool_sent' # n_tool_sent =>
           /\ n_tool_sent' = n_tool_sent + 1
           /\ receiver_pc = "toolsend" /\ receiver_pc' = "recv"
           /\ tool_sent' = tool_results
           /\ tool_results' = <<>>
           /\ attempt' = attempt /\ session' ]_vars
  /\ [][ tool_sent' # tool_sent => n_tool_sent' = n_tool_sent + 1 ]_vars
  /\ [](n_tool_sent <= n_tool)

\* a session without a tool-call callback has answered two messages, the second with
\* two function calls: both results are the empty string, under the names of the calls
C31_Witness ==
  /\ ~on_tool_call
  /\ n_tool_sent = 2
  /\ receiver_pc = "recv"
  /\ tool_sent = << <<"robot_expression", EmptyString>>, <<"robot_look_at", EmptyString>> >>

(* ---- C32 ---- *)
\* C32: the tool-call callback is invoked for one function call at a time, in the
\* order of the calls: while a callback is awaited the callbacks of the earlier calls
\* of the message have completed, in order, and those of the later ones have not been
\* invoked; when it completes the next call of the message follows; and no further
\* message is taken up until the last callback has completed and the response of the
\* message has been sent (or the loop was cancelled).
C32_ToolCallsSerialized ==
  /\ [](receiver_pc = "tool" =>
          /\ on_tool_call
          /\ tool_i \in 1..Len(recv_msg.calls)
          /\ Len(tool_results) = tool_i - 1
          /\ \A j \in 1..(tool_i - 1) : tool_results[j][1] = recv_msg.calls[j])
  /\ [][ (receiver_pc = "tool" /\ receiver_pc' = "tool") =>
           /\ recv_msg' = recv_msg
           /\ \/ (tool_i' = tool_i /\ tool_results' = tool_results)
              \/ (tool_i' = tool_i + 1 /\ Len(tool_results') = tool_i) ]_vars
  /\ [][ (receiver_pc \in {"tool", "toolsend"}) =>
           (n_tool' = n_tool /\ recv_msg' \in {recv_msg, NoToolMsg}) ]_vars
  /\ [][ n_tool' # n_tool =>
           /\ n_tool' = n_tool + 1
           /\ receiver_pc = "recv"
           /\ recv_msg = NoToolMsg /\ tool_i = 0 /\ tool_results = <<>> ]_vars
  /\ [](receiver_pc \in {"none", "start", "recv", "ended"} =>
          (recv_msg = NoToolMsg /\ tool_i = 0))

\* the callback of the second call of the second message is awaited; the first
\* message has been answered and the first call of this one has completed
C32_Witness ==
  /\ receiver_pc = "tool"
  /\ n_tool = 2
  /\ n_tool_sent = 1
  /\ tool_i = 2
  /\ Len(tool_results) = 1

(* ---- C33 ---- *)
\* C33: the go-away flag belongs to one connection: it is false when a connection
\* attempt begins and while connect is awaited, and it is raised only by the receiver
\* loop of the open connection; so a transient failure of connect is always followed
\* by the backoff sleep, and so is the end of a connection on which no go-away was
\* received, whatever was received on earlier connections.
C33_GoAwayFlagPerConnection ==
  /\ [][ (pc # "connecting" /\ pc' = "connecting") => ~go_away_received' ]_vars
  /\ [](pc = "connecting" => ~go_away_received)
  /\ [][ (~go_away_received /\ go_away_received') =>
           (pc = "waiting" /\ session /\ receiver_pc \in {"recv", "toolsend"}) ]_vars
  /\ [][ (pc = "connecting" /\ pc' \notin {"connecting", "waiting", "raised"}) =>
           (pc' = "sleeping" /\ slept_seq' = Append(slept_seq, backoff)) ]_vars
  /\ [][ (pc = "closing" /\ pc' # "closing" /\ ~stop_event /\ ~go_away_received) =>
           (pc' = "sleeping" /\ slept_seq' = Append(slept_seq, backoff)) ]_vars

\* the first connection ended by a go-away and run reconnected at once; the second
\* attempt failed transiently and run sleeps the backoff
C33_Witness ==
  /\ pc = "sleeping"
  /\ attempt = 2
  /\ slept_seq = <<1>>
  /\ conn_error # NoError
  /\ ~go_away_received

(* ---- C34 ---- *)
\* C34: the last-speech time is unset exactly when no block has been processed since
\* construction or the latest reset; the first call of process after that makes its
\* own time the last-speech time and returns false, for a silent block too, whatever
\* the calls before the reset returned; reset unsets the last-speech time.
C34_FirstCallInitialises ==
  /\ []((vad_log = <<>>) <=> (last_speech_time = NoTime))
  /\ [][ (last_speech_time = NoTime /\ last_speech_time' # NoTime) =>
           /\ Len(vad_log') = 1
           /\ last_speech_time' = <<vad_log'[1][1]>>
           /\ ~vad_log'[1][3] ]_vars
  /\ [][ (vad_log # <<>> /\ vad_log' = <<>>) => last_speech_time' = NoTime ]_vars

\* the detector was reset after a call that had reported the timeout, and the first
\* call after the reset, a silent block at 4.0 s, returned false
C34_Witness ==
  /\ timed_out_before_reset
  /\ vad_log = << <<8, FALSE, FALSE>> >>
  /\ last_speech_time = <<8>>

(* ---- C35 ---- *)
\* the observers a transition is reported to, in the order the claim gives: the
\* dashboard's, when it wraps the callback, then the callback registered before
ObserversInOrder ==
  (IF audio_handler THEN <<"dashboard">> ELSE <<>>)
  \o (IF on_transition THEN <<"original">> ELSE <<>>)

\* C35: a call of send_event that is accepted invokes every transition observer
\* exactly once, the dashboard's wrapper before the callback it wrapped, each with
\* (old phase, event, new phase) and with the machine already in the new phase; a
\* call that is rejected invokes none; and nothing but send_event invokes them.
C35_TransitionCallback ==
  /\ [][ (sm_calls' # sm_calls /\ sm_result' # "ValueError") =>
           /\ [i \in 1..Len(cb_calls') |-> cb_calls'[i].observer] = ObserversInOrder
           /\ \A i \in 1..Len(cb_calls') :
                /\ cb_calls'[i].args = <<sm_state, sm_event', sm_state'>>
                /\ cb_calls'[i].state = sm_state'
                /\ cb_calls'[i].args[3] = sm_result' ]_vars
  /\ [][ (sm_calls' # sm_calls /\ sm_result' = "ValueError") =>
           (cb_calls' = <<>> /\ sm_state' = sm_state) ]_vars
  /\ [][ cb_calls' # cb_calls => sm_calls' # sm_calls ]_vars

\* a machine with a registered callback and the dashboard's wrapper has taken
\* SLEEPING to WAKING: the dashboard observer was called, then the callback
C35_Witness ==
  /\ on_transition /\ audio_handler
  /\ sm_state = "WAKING"
  /\ Len(cb_calls) = 2
  /\ cb_calls[1].observer = "dashboard"
  /\ cb_calls[2].observer = "original"
  /\ cb_calls[2].args = <<"SLEEPING", "WAKE_WORD_DETECTED", "WAKING">>

(* ---- C36 ---- *)
\* C36: an Active phase begins with a session that has no resumption token and empty
\* queues; a connection carries no token but one learned in its own phase; and what
\* reaches the transport or a reader of the playback queue was queued in its own
\* phase (the logs enq_log and n_prod are those of the phase's session).
C36_FreshSessionPerPhase ==
  /\ [][ (main_pc = "loop" /\ main_pc' = "group") =>
           /\ resumption_handle' = None
           /\ send_queue' = <<>>
           /\ playback_queue' = <<>> ]_vars
  /\ [](live_config.session_resumption_handle \in {None, recv_handle})
  /\ [](\A i \in 1..Len(wire) : wire[i].blob.data \in 1..Len(enq_log))
  /\ [](sender_msg # NoMsg => sender_msg[2] \in 1..Len(enq_log))
  /\ [](\A i \in 1..Len(delivered) : delivered[i][2].id \in 1..n_prod)

\* after an Active phase whose session was dropped holding a token and queued items,
\* the session of a later phase is connected with no token in its configuration and
\* has sent an item and delivered a chunk of its own
C36_Witness ==
  /\ dropped_full
  /\ main_pc = "group"
  /\ session
  /\ live_config.session_resumption_handle = None
  /\ wire # <<>>
  /\ delivered # <<>>

(* ---- C37 ---- *)
\* C37: the capture loop and the playback loop end only when the stop signal is set
\* or the group cancels them; a pass of one loop, failed or not (an I/O error is
\* logged, the loop pauses and goes on), leaves the other loop, run and the monitor
\* as they are; and once the stop signal is set both loops terminate.
C37_AudioLoopsIndependent ==
  /\ [][ (cap_pc # "ended" /\ cap_pc' = "ended") => (stop_event \/ group_aborting') ]_vars
  /\ [][ (play_pc # "ended" /\ play_pc' = "ended") => (stop_event \/ group_aborting') ]_vars
  /\ [][ (cap_pc = "sample" /\ cap_pc' = "top") => UNCHANGED <<play_pc, pc, mon_pc>> ]_vars
  /\ [][ (play_pc = "getting" /\ play_pc' = "top") => UNCHANGED <<cap_pc, pc, mon_pc>> ]_vars
  /\ (stop_event ~> (LoopOver(cap_pc) /\ LoopOver(play_pc)))

(* ---- C38 ---- *)
\* C38: a cost-tracking session is started only by _handle_waking and is ended by
\* _handle_active before the machine goes from ACTIVE to COOLDOWN, on the Error of the
\* main loop as on the end event of the handler; so no cost-tracking session is open
\* while the machine is in SLEEPING.
C38_CostSessionPaired ==
  /\ [][ (cost_session' /\ ~cost_session) => main_pc = "start_session" ]_vars
  /\ [][ (sm_state = "ACTIVE" /\ sm_state' = "COOLDOWN") => ~cost_session' ]_vars
  /\ [](sm_state = "SLEEPING" => ~cost_session)

(* ---- C39 ---- *)
\* C39: the web audio handler has a session attached only while _handle_active is in
\* its concurrent group, and it is detached by the step that leaves the group, with
\* or without an error; while it is detached no call of receive queues a frame and no
\* call of emit returns audio: a call then drops the frame or returns none.
C39_WebHandlerAttachedInGroup ==
  /\ [](web_gemini => main_pc = "group")
  /\ [][ (main_pc = "group" /\ main_pc' # "group") => ~web_gemini' ]_vars
  /\ [][ (~web_gemini) =>
           /\ Len(enq_log') <= Len(enq_log)
           /\ Len(delivered') <= Len(delivered)
           /\ (web_last' # web_last => web_last' \in {"dropped", "no_audio"}) ]_vars

\* the group has ended and the handler is detached, the session that was attached
\* still holds a frame of the browser and a chunk for it, and a call of emit has
\* returned none
C39_Witness ==
  /\ main_pc = "end_session"
  /\ ~web_gemini
  /\ send_queue # <<>>
  /\ playback_queue # <<>>
  /\ web_last = "no_audio"

(* ---- C40 ---- *)
\* a text of blanks only (the empty text included)
Blank(s) == \A i \in 1..Len(s) : s[i] = " "

\* the positions of a text that hold something other than a blank
Marks(s) == {i \in 1..Len(s) : s[i] # " "}

\* a text that is not blank, from its first to its last character that is no blank
Trimmed(s) ==
  SubSeq(s, CHOOSE i \in Marks(s) : \A j \in Marks(s) : i <= j,
            CHOOSE i \in Marks(s) : \A j \in Marks(s) : i >= j)

\* C40: whatever the dashboard holds, a call of append_transcript for a speaker puts
\* the fragment at the end of that speaker's buffer; if the fragment is final and the
\* buffer so extended is not blank, one entry with the speaker and the extended buffer
\* stripped is appended to the transcript and the buffer is emptied, and otherwise the
\* transcript is as it was; the other speaker's buffer and the entries already in the
\* transcript are as before.
C40_AppendTranscript ==
  \A role \in Speakers, text \in Fragments, finished \in BOOLEAN :
    LET r == append_transcript(role, text, finished)
        own == IF role = "user" THEN user_text_buffer ELSE assistant_text_buffer
        other == IF role = "user" THEN assistant_text_buffer ELSE user_text_buffer
        own_after == IF role = "user" THEN r.user_text_buffer ELSE r.assistant_text_buffer
        other_after == IF role = "user" THEN r.assistant_text_buffer ELSE r.user_text_buffer
        joined == own \o text
    IN /\ other_after = other
       /\ Len(r.transcript) >= Len(transcript)
       /\ SubSeq(r.transcript, 1, Len(transcript)) = transcript
       /\ IF finished /\ ~Blank(joined)
            THEN /\ r.transcript =
                      Append(transcript, [role |-> role, content |-> Trimmed(joined)])
                 /\ own_after = <<>>
            ELSE /\ r.transcript = transcript
                 /\ own_after = joined

\* the user's fragments made the entry "a a" and the assistant's a second entry after
\* it, and both buffers are empty again
C40_Witness ==
  /\ Len(transcript) = 2
  /\ transcript[1] = [role |-> "user", content |-> <<"a", " ", "a">>]
  /\ transcript[2] = [role |-> "assistant", content |-> <<"a">>]
  /\ user_text_buffer = <<>>
  /\ assistant_text_buffer = <<>>

====
